---------------------------- MODULE Spec2Model ----------------------------
(***************************************************************************)
(* A model of the storage engine of go-todo-cli: the in-memory MemoryStore *)
(* and the file-backed FileStore (src/internal/storage/memory/store.go),   *)
(* the Task record and its validation (src/unnamed/part_002) and the older *)
(* TaskStore (src/internal/task/task_store.go).                            *)
(*                                                                         *)
(* Time is counted in minutes.  The zero time.Time is ZeroTime.            *)
(***************************************************************************)
EXTENDS Integers, Sequences, FiniteSets, TLC

VARIABLES
    kind,       \* which implementation the store object is: "memory" or "file"
    tasks,      \* MemoryStore.tasks / FileStore.tasks: map[int]models.Task
    maxID,      \* MemoryStore.maxID / FileStore.maxID
    isActive,   \* MemoryStore.isActive / FileStore.isActive
    lastSave,   \* FileStore.lastSave
    file,       \* the contents of the file at FileStore.filePath
    backups,    \* the snapshot files filePath.backup.<id>, by id
    routines,   \* the live autoSaveRoutine goroutines: the next tick of each
    now,        \* time.Now()
    ret,        \* the last call: its name, its argument ID and what it returned
    lastIssued, \* history: the ID the last successful CreateTask handed out,
                \* by whichever store object of the file
    closedTasks, \* history: the record map as of the last successful Close
    mu,         \* MemoryStore.mu / FileStore.mu: the caller holding it, 0 if free
    callers,    \* the concurrent callers: where each is in its call, its locals
    readers,    \* FileStore.mu: the callers holding it for reading (RLock)
    diskFails   \* the environment: whether a write of a file may fail

vars == <<kind, tasks, maxID, isActive, lastSave, file, backups, routines,
          now, ret, lastIssued, closedTasks, mu, callers, readers, diskFails>>

-----------------------------------------------------------------------------
(* Bounds of the model *)

\* the ID counter is not driven past this value
MaxID == 2
\* the clock is not driven past this value
MaxTime == 6
\* at most this many auto-save goroutines are alive at once
MaxRoutines == 1
\* at most this many snapshot files are written
MaxBackups == 1
\* the counter is not driven past this value where IDs are only counted
MaxCreates == 4
\* the counter is not driven past this value where the clock runs
MaxTimedID == 1
\* the number of concurrent callers
NumCallers == 2
\* each concurrent caller makes at most this many calls
MaxCalls == 2
\* SpecAuto: the last minute of the clock
MaxAutoTime == 7
\* the concurrent callers of SpecLock and its auto-save goroutine make at
\* most this many calls and turns in all
MaxLockCalls == 2

-----------------------------------------------------------------------------
(* Program constants *)

\* NewFileStore: autoSaveTime: 5 * time.Minute
AutoSaveTime == 5
\* time.Time{}
ZeroTime == 0
\* the largest time.Duration in minutes (1<<63 - 1 ns): time.Since of the zero
\* time saturates there
MaxDuration == 153722867

\* the range of the type int of the fields ID and maxID, on a build where int
\* has 32 bits (a 64-bit build wraps the same way at 1<<63 - 1)
MaxInt == 2147483647
MinInt == -2147483647 - 1

\* models.TaskStatus
NotStarted == 0
InProgress == 1
Completed == 2
Archived == 3
\* models.Priority
Low == 0
Medium == 1
High == 2
Urgent == 3

\* the errors of package storage and the fmt.Errorf errors of the stores
ErrNil == "nil"
ErrTaskNotFound == "task not found"
ErrStorageConnection == "storage connection error"
ErrTaskValidation == "task validation failed"
ErrAlreadyConnected == "store is already connected"
ErrAlreadyClosed == "store is already closed"
ErrWriteFile == "failed to write file"
ErrReadFile == "failed to read file"
ErrUnsupportedFormat == "unsupported format"
\* CreateTasks wraps the error of Validate itself, not ErrTaskValidation
ErrBatchValidation == "validation failed for task"
\* encoding/csv: io.EOF for an input without a header, ErrFieldCount for a
\* record that has not the header's number of fields
ErrEOF == "EOF"
ErrFieldCount == "wrong number of fields"

-----------------------------------------------------------------------------
(* models.Task *)

\* the zero value of models.Task
ZeroTask ==
    [ID |-> 0, Name |-> "", Description |-> "", Status |-> NotStarted,
     Priority |-> Low, CreatedAt |-> ZeroTime, UpdatedAt |-> ZeroTime,
     DueDate |-> ZeroTime, CompletedAt |-> ZeroTime, Tags |-> <<>>,
     Category |-> "", SubTasks |-> <<>>, Progress |-> 0]

\* models.NewTask at time t
NewTask(name, t) ==
    [ZeroTask EXCEPT !.Name = name, !.Status = NotStarted, !.Priority = Medium,
                     !.CreatedAt = t, !.UpdatedAt = t]

\* Task.Validate at time t: nil or the validation error
Validate(task, t) ==
    IF task.Name = "" THEN ErrTaskValidation
    ELSE IF task.Progress < 0 \/ task.Progress > 100 THEN ErrTaskValidation
    ELSE IF task.DueDate # ZeroTime /\ task.DueDate < t THEN ErrTaskValidation
    ELSE ErrNil

\* the errors of the methods of Task
ErrProgressRange == "progress must be between 0 and 100"
ErrSubTaskNotFound == "subtask not found"

\* Task.Complete at time t
Complete(task, t) ==
    [task EXCEPT !.Status = Completed, !.Progress = 100, !.CompletedAt = t,
                 !.UpdatedAt = t]

\* an UpdateProgress that never touches the status
UpdateProgressOnly(task, progress, t) ==
    IF progress < 0 \/ progress > 100
    THEN [task |-> task, err |-> ErrProgressRange]
    ELSE [task |-> [task EXCEPT !.Progress = progress, !.UpdatedAt = t],
          err |-> ErrNil]
\* Task.UpdateProgress at time t: the task it leaves and the error
UpdateProgress(task, progress, t) ==
    IF progress < 0 \/ progress > 100
    THEN [task |-> task, err |-> ErrProgressRange]
    ELSE LET t2 == [task EXCEPT !.Progress = progress, !.UpdatedAt = t]
         IN [task |-> IF progress = 100 /\ t2.Status # Completed
                      THEN Complete(t2, t)
                      ELSE IF progress < 100 /\ t2.Status = NotStarted
                      THEN [t2 EXCEPT !.Status = InProgress]
                      ELSE t2,
             err |-> ErrNil]

\* the SubTask literal of Task.AddSubTask
NewSubTask(id, name, t) ==
    [ID |-> id, Name |-> name, Completed |-> FALSE, CreatedAt |-> t,
     CompletedAt |-> ZeroTime]

\* Task.AddSubTask at time t
AddSubTask(task, name, t) ==
    [task EXCEPT
        !.SubTasks = Append(@, NewSubTask(Len(task.SubTasks) + 1, name, t)),
        !.UpdatedAt = t]

\* the number of completed subtasks among subs
CompletedCount(subs) ==
    Cardinality({i \in DOMAIN subs : subs[i].Completed})

\* Task.CompleteSubTask at time t: the first subtask with the ID is completed
\* and the progress becomes the share of completed subtasks; the status is
\* left alone
CompleteSubTask(task, id, t) ==
    LET hits == {i \in DOMAIN task.SubTasks : task.SubTasks[i].ID = id}
    IN IF hits = {} THEN [task |-> task, err |-> ErrSubTaskNotFound]
       ELSE LET i == CHOOSE k \in hits : \A h \in hits : k <= h
                subs == [task.SubTasks EXCEPT ![i].Completed = TRUE,
                                              ![i].CompletedAt = t]
            IN [task |-> [task EXCEPT
                            !.SubTasks = subs, !.UpdatedAt = t,
                            !.Progress = (CompletedCount(subs) * 100)
                                            \div Len(subs)],
                err |-> ErrNil]

\* whether tag is one of tags
HasTag(tags, tag) == \E i \in DOMAIN tags : tags[i] = tag

\* Task.AddTag at time t
AddTag(task, tag, t) ==
    IF HasTag(task.Tags, tag) THEN task
    ELSE [task EXCEPT !.Tags = Append(@, tag), !.UpdatedAt = t]

\* tags without its element at position i
DropAt(tags, i) ==
    [k \in 1..(Len(tags) - 1) |-> IF k < i THEN tags[k] ELSE tags[k + 1]]

\* Task.RemoveTag at time t: the first occurrence of the tag is cut out
RemoveTag(task, tag, t) ==
    IF ~HasTag(task.Tags, tag) THEN task
    ELSE LET i == CHOOSE k \in DOMAIN task.Tags :
                     /\ task.Tags[k] = tag
                     /\ \A h \in 1..(k - 1) : task.Tags[h] # tag
         IN [task EXCEPT !.Tags = DropAt(@, i), !.UpdatedAt = t]

\* Task.IsOverdue at time t: the due date is set and t is after it
IsOverdue(task, t) == task.DueDate # ZeroTime /\ t > task.DueDate

-----------------------------------------------------------------------------
(* encoding/json of FileData *)

\* a Marshal that never writes the tags
TaskKeysNoTags(task) ==
    {"id", "name", "status", "priority", "created_at", "updated_at",
     "due_date", "completed_at", "progress"}
\* the keys json.Marshal writes for a Task: omitempty drops an empty string
\* and an empty slice, never a time.Time
TaskKeys(task) ==
    {"id", "name", "status", "priority", "created_at", "updated_at",
     "due_date", "completed_at", "progress"}
      \cup (IF task.Description # "" THEN {"description"} ELSE {})
      \cup (IF Len(task.Tags) > 0 THEN {"tags"} ELSE {})
      \cup (IF task.Category # "" THEN {"category"} ELSE {})
      \cup (IF Len(task.SubTasks) > 0 THEN {"subtasks"} ELSE {})

MarshalTask(task) ==
    [k \in TaskKeys(task) |->
        CASE k = "id" -> task.ID
          [] k = "name" -> task.Name
          [] k = "description" -> task.Description
          [] k = "status" -> task.Status
          [] k = "priority" -> task.Priority
          [] k = "created_at" -> task.CreatedAt
          [] k = "updated_at" -> task.UpdatedAt
          [] k = "due_date" -> task.DueDate
          [] k = "completed_at" -> task.CompletedAt
          [] k = "tags" -> task.Tags
          [] k = "category" -> task.Category
          [] k = "subtasks" -> task.SubTasks
          [] k = "progress" -> task.Progress]

\* json.Unmarshal leaves the field of a missing key at its zero value
UnmarshalTask(obj) ==
    [ID |-> IF "id" \in DOMAIN obj THEN obj["id"] ELSE 0,
     Name |-> IF "name" \in DOMAIN obj THEN obj["name"] ELSE "",
     Description |-> IF "description" \in DOMAIN obj THEN obj["description"] ELSE "",
     Status |-> IF "status" \in DOMAIN obj THEN obj["status"] ELSE 0,
     Priority |-> IF "priority" \in DOMAIN obj THEN obj["priority"] ELSE 0,
     CreatedAt |-> IF "created_at" \in DOMAIN obj THEN obj["created_at"] ELSE ZeroTime,
     UpdatedAt |-> IF "updated_at" \in DOMAIN obj THEN obj["updated_at"] ELSE ZeroTime,
     DueDate |-> IF "due_date" \in DOMAIN obj THEN obj["due_date"] ELSE ZeroTime,
     CompletedAt |-> IF "completed_at" \in DOMAIN obj THEN obj["completed_at"] ELSE ZeroTime,
     Tags |-> IF "tags" \in DOMAIN obj THEN obj["tags"] ELSE <<>>,
     Category |-> IF "category" \in DOMAIN obj THEN obj["category"] ELSE "",
     SubTasks |-> IF "subtasks" \in DOMAIN obj THEN obj["subtasks"] ELSE <<>>,
     Progress |-> IF "progress" \in DOMAIN obj THEN obj["progress"] ELSE 0]

\* json.MarshalIndent of a FileData (Backup is never set: omitempty)
MarshalFileData(data) ==
    [metadata |-> [version |-> data.Metadata.Version,
                   last_updated |-> data.Metadata.LastUpdated,
                   task_count |-> data.Metadata.TaskCount,
                   max_id |-> data.Metadata.MaxID],
     tasks |-> [i \in 1..Len(data.Tasks) |-> MarshalTask(data.Tasks[i])]]

UnmarshalFileData(doc) ==
    [Metadata |-> [Version |-> doc.metadata.version,
                   LastUpdated |-> doc.metadata.last_updated,
                   TaskCount |-> doc.metadata.task_count,
                   MaxID |-> doc.metadata.max_id],
     Tasks |-> [i \in 1..Len(doc.tasks) |-> UnmarshalTask(doc.tasks[i])]]

\* FileData literal of Connect: the seed content of a new file
InitialData(t) ==
    [Metadata |-> [Version |-> "1.0", LastUpdated |-> t, TaskCount |-> 0, MaxID |-> 0],
     Tasks |-> <<>>]

\* a path that os.Stat reports as not existing
NoFile == [exists |-> FALSE, doc |-> MarshalFileData(InitialData(ZeroTime))]

-----------------------------------------------------------------------------
(* helpers of FileStore *)

RECURSIVE KeysAscending(_)
\* the keys in S, ascending
KeysAscending(S) ==
    IF S = {} THEN <<>>
    ELSE LET m == CHOOSE x \in S : \A y \in S : x <= y
         IN <<m>> \o KeysAscending(S \ {m})

\* a prepareFileData that leaves the tasks out
prepareFileDataNoTasks(ts, mx, t) ==
    [Metadata |-> [Version |-> "1.0", LastUpdated |-> t, TaskCount |-> 0,
                   MaxID |-> mx],
     Tasks |-> <<>>]
\* FileStore.prepareFileData over the map ts and the counter mx.  The code
\* appends the tasks in the order a range over the map visits them, which Go
\* leaves open; the list is kept here in ascending ID order as the
\* representative of all those orders.  Every reader of a written list
\* (loadFromFile, Restore, importFromFileData) stores each task under its ID,
\* and the IDs of a list written from a map are pairwise distinct, so the
\* orders cannot be told apart by them.
prepareFileData(ts, mx, t) ==
    LET order == KeysAscending(DOMAIN ts)
    IN [Metadata |-> [Version |-> "1.0", LastUpdated |-> t,
                      TaskCount |-> Len(order), MaxID |-> mx],
        Tasks |-> [i \in 1..Len(order) |-> ts[order[i]]]]

\* what os.WriteFile can do: succeed, or fail when the disk may fail
WriteOutcomes == IF diskFails THEN BOOLEAN ELSE {TRUE}

\* FileStore.saveToFile: the file, lastSave and the error after writing data;
\* os.WriteFile succeeds iff ioOk
saveToFile(data, ioOk, t) ==
    IF ioOk
    THEN [file |-> [exists |-> TRUE, doc |-> MarshalFileData(data)],
          lastSave |-> t, err |-> ErrNil]
    ELSE [file |-> file, lastSave |-> lastSave, err |-> ErrWriteFile]

\* FileStore.save
save(ts, mx, ioOk, t) ==
    saveToFile(prepareFileData(ts, mx, t), ioOk, t)

\* time.Since(u) at time t
Since(u, t) == IF u = ZeroTime THEN MaxDuration ELSE t - u

\* a saveIfNeeded that saves on every call
saveAlways(ts, mx, ioOk, t) == save(ts, mx, ioOk, t)
\* FileStore.saveIfNeeded
saveIfNeeded(ts, mx, ioOk, t) ==
    IF Since(lastSave, t) >= AutoSaveTime
    THEN save(ts, mx, ioOk, t)
    ELSE [file |-> file, lastSave |-> lastSave, err |-> ErrNil]

\* a Close that saves only when the auto-save interval has elapsed
saveOnCloseIfDue(ts, mx, ioOk, t) == saveIfNeeded(ts, mx, ioOk, t)
\* the save of FileStore.Close: f.save(), whatever lastSave is
saveOnClose(ts, mx, ioOk, t) == save(ts, mx, ioOk, t)

RECURSIVE LoadLoop(_, _, _, _)
\* the loop of loadFromFile, Restore and importFromFileData over list[i..]:
\* each task is stored under its ID and the counter is raised to it
LoadLoop(list, i, ts, mx) ==
    IF i > Len(list) THEN [tasks |-> ts, maxID |-> mx]
    ELSE LET task == list[i]
             ts2 == [id \in DOMAIN ts \cup {task.ID} |->
                        IF id = task.ID THEN task ELSE ts[id]]
         IN LoadLoop(list, i + 1, ts2, IF task.ID > mx THEN task.ID ELSE mx)

\* FileStore.loadFromFile: a fresh map, the counter kept and raised
loadFromFile(f, mx) ==
    LoadLoop(UnmarshalFileData(f.doc).Tasks, 1, <<>>, mx)

\* x++ on an int: Go wraps on overflow
Inc(x) == IF x = MaxInt THEN MinInt ELSE x + 1

\* an ID taken from the number of records, as the task list of the menu does
NextIDByCount(ts, mx) == Cardinality(DOMAIN ts) + 1
\* m.maxID++; task.ID = m.maxID: the ID CreateTask assigns
NextID(ts, mx) == Inc(mx)

\* a lookup that finds every ID
ExistsAlways(ts, id) == TRUE
\* _, exists := m.tasks[id]
Exists(ts, id) == id \in DOMAIN ts

\* a checkActive that lets every call through
checkActiveSkipped == ErrNil
\* checkActive of both stores
checkActive == IF isActive THEN ErrNil ELSE ErrStorageConnection

\* delete(m, id)
MapDelete(ts, id) == [k \in DOMAIN ts \ {id} |-> ts[k]]
\* m[id] = task
MapPut(ts, id, task) == [k \in DOMAIN ts \cup {id} |-> IF k = id THEN task ELSE ts[k]]

\* what a call leaves for its caller: the operation, its ID argument (id), its
\* ID list argument (ids), the ID written back into the caller's task (out)
\* and the error returned
Call(op, id, ids, out, err) ==
    [op |-> op, id |-> id, ids |-> ids, out |-> out, err |-> err]

\* closedTasks before any Close: set tells whether a Close succeeded, tasks is
\* the map it saw, elapsed the time since the last save it saw
NoSnapshot == [set |-> FALSE, tasks |-> <<>>, elapsed |-> 0]

-----------------------------------------------------------------------------
(* Connect and Close *)

\* a Connect that skips its check of isActive
AlreadyConnectedUnchecked == FALSE
\* the check at the head of Connect: if m.isActive { return error }
AlreadyConnected == isActive

\* MemoryStore.Connect
MemConnect ==
    /\ kind = "memory"
    /\ IF AlreadyConnected
       THEN /\ ret' = Call("Connect", 0, <<>>, 0, ErrAlreadyConnected)
            /\ UNCHANGED isActive
       ELSE /\ isActive' = TRUE
            /\ ret' = Call("Connect", 0, <<>>, 0, ErrNil)
    /\ UNCHANGED <<readers, diskFails, mu, callers, kind, tasks, maxID, lastSave, file, backups, routines, now,
                   lastIssued, closedTasks>>

\* MemoryStore.Close
MemClose ==
    /\ kind = "memory"
    /\ IF ~isActive
       THEN /\ ret' = Call("Close", 0, <<>>, 0, ErrAlreadyClosed)
            /\ UNCHANGED isActive
       ELSE /\ isActive' = FALSE
            /\ ret' = Call("Close", 0, <<>>, 0, ErrNil)
    /\ UNCHANGED <<readers, diskFails, mu, callers, kind, tasks, maxID, lastSave, file, backups, routines, now,
                   lastIssued, closedTasks>>

\* FileStore.Connect: the file is created when absent (os.WriteFile succeeds
\* iff ioOk), loaded (os.ReadFile succeeds iff readOk), and an
\* autoSaveRoutine is started whose ticker first fires AutoSaveTime from now
FileConnect ==
    /\ kind = "file"
    /\ IF AlreadyConnected
       THEN /\ ret' = Call("Connect", 0, <<>>, 0, ErrAlreadyConnected)
            /\ UNCHANGED <<tasks, maxID, isActive, lastSave, file, routines,
                           closedTasks>>
       ELSE \E ioOk \in WriteOutcomes, readOk \in BOOLEAN :
              LET w == IF file.exists
                       THEN [file |-> file, lastSave |-> lastSave, err |-> ErrNil]
                       ELSE saveToFile(InitialData(now), ioOk, now)
                  l == loadFromFile(w.file, maxID)
              IN /\ file' = w.file
                 /\ lastSave' = w.lastSave
                 /\ IF w.err # ErrNil \/ ~readOk
                    THEN /\ ret' = Call("Connect", 0, <<>>, 0,
                                        IF w.err # ErrNil THEN w.err ELSE ErrReadFile)
                         /\ UNCHANGED <<tasks, maxID, isActive, routines,
                                        closedTasks>>
                    ELSE /\ tasks' = l.tasks
                         /\ maxID' = l.maxID
                         /\ isActive' = TRUE
                         /\ routines' = Append(routines, now + AutoSaveTime)
                         /\ closedTasks' = NoSnapshot
                         /\ ret' = Call("Connect", 0, <<>>, 0, ErrNil)
    /\ UNCHANGED <<readers, diskFails, mu, callers, kind, backups, now, lastIssued>>

\* FileStore.Close: an unconditional save, then the store is inactive
FileClose ==
    /\ kind = "file"
    /\ IF ~isActive
       THEN /\ ret' = Call("Close", 0, <<>>, 0, ErrAlreadyClosed)
            /\ UNCHANGED <<isActive, lastSave, file, closedTasks>>
       ELSE \E ioOk \in WriteOutcomes :
              LET s == saveOnClose(tasks, maxID, ioOk, now)
              IN /\ file' = s.file
                 /\ lastSave' = s.lastSave
                 /\ ret' = Call("Close", 0, <<>>, 0, s.err)
                 /\ IF s.err # ErrNil
                    THEN UNCHANGED <<isActive, closedTasks>>
                    ELSE /\ isActive' = FALSE
                         /\ closedTasks' =
                              [set |-> TRUE, tasks |-> tasks,
                               elapsed |-> Since(lastSave, now)]
    /\ UNCHANGED <<readers, diskFails, mu, callers, kind, tasks, maxID, backups, routines, now, lastIssued>>

Connect == MemConnect \/ FileConnect
Close == MemClose \/ FileClose

-----------------------------------------------------------------------------
(* CRUD *)

\* the result of saveIfNeeded for a FileStore; a MemoryStore writes nothing
Persist(ts, mx, ioOk) ==
    IF kind = "file"
    THEN saveIfNeeded(ts, mx, ioOk, now)
    ELSE [file |-> file, lastSave |-> lastSave, err |-> ErrNil]

\* MemoryStore.CreateTask / FileStore.CreateTask
CreateTask(task) ==
    /\ IF checkActive # ErrNil
       THEN /\ ret' = Call("CreateTask", task.ID, <<>>, task.ID, checkActive)
            /\ UNCHANGED <<tasks, maxID, lastSave, file, lastIssued>>
       ELSE IF Validate(task, now) # ErrNil
       THEN /\ ret' = Call("CreateTask", task.ID, <<>>, task.ID, ErrTaskValidation)
            /\ UNCHANGED <<tasks, maxID, lastSave, file, lastIssued>>
       ELSE LET mx == NextID(tasks, maxID)
                t2 == [task EXCEPT !.ID = mx, !.CreatedAt = now, !.UpdatedAt = now]
                ts == MapPut(tasks, t2.ID, t2)
            IN \E ioOk \in WriteOutcomes :
                 LET s == Persist(ts, mx, ioOk)
                 IN /\ maxID' = mx
                    /\ tasks' = ts
                    /\ file' = s.file
                    /\ lastSave' = s.lastSave
                    /\ ret' = Call("CreateTask", task.ID, <<>>, t2.ID, s.err)
                    /\ lastIssued' = IF s.err = ErrNil THEN t2.ID ELSE lastIssued
    /\ UNCHANGED <<readers, diskFails, mu, callers, kind, isActive, backups, routines, now, closedTasks>>

\* MemoryStore.GetTask / FileStore.GetTask
GetTask(id) ==
    /\ ret' = Call("GetTask", id, <<>>, 0,
                   IF checkActive # ErrNil THEN checkActive
                   ELSE IF ~Exists(tasks, id) THEN ErrTaskNotFound
                   ELSE ErrNil)
    /\ UNCHANGED <<readers, diskFails, mu, callers, kind, tasks, maxID, isActive, lastSave, file, backups,
                   routines, now, lastIssued, closedTasks>>

\* MemoryStore.UpdateTask / FileStore.UpdateTask
UpdateTask(task) ==
    /\ IF checkActive # ErrNil
       THEN /\ ret' = Call("UpdateTask", task.ID, <<>>, 0, checkActive)
            /\ UNCHANGED <<tasks, lastSave, file>>
       ELSE IF Validate(task, now) # ErrNil
       THEN /\ ret' = Call("UpdateTask", task.ID, <<>>, 0, ErrTaskValidation)
            /\ UNCHANGED <<tasks, lastSave, file>>
       ELSE IF ~Exists(tasks, task.ID)
       THEN /\ ret' = Call("UpdateTask", task.ID, <<>>, 0, ErrTaskNotFound)
            /\ UNCHANGED <<tasks, lastSave, file>>
       ELSE LET t2 == [task EXCEPT !.UpdatedAt = now]
                ts == MapPut(tasks, t2.ID, t2)
            IN \E ioOk \in WriteOutcomes :
                 LET s == Persist(ts, maxID, ioOk)
                 IN /\ tasks' = ts
                    /\ file' = s.file
                    /\ lastSave' = s.lastSave
                    /\ ret' = Call("UpdateTask", task.ID, <<>>, 0, s.err)
    /\ UNCHANGED <<readers, diskFails, mu, callers, kind, maxID, isActive, backups, routines, now, lastIssued,
                   closedTasks>>

\* MemoryStore.DeleteTask / FileStore.DeleteTask
DeleteTask(id) ==
    /\ IF checkActive # ErrNil
       THEN /\ ret' = Call("DeleteTask", id, <<>>, 0, checkActive)
            /\ UNCHANGED <<tasks, lastSave, file>>
       ELSE IF ~Exists(tasks, id)
       THEN /\ ret' = Call("DeleteTask", id, <<>>, 0, ErrTaskNotFound)
            /\ UNCHANGED <<tasks, lastSave, file>>
       ELSE LET ts == MapDelete(tasks, id)
            IN \E ioOk \in WriteOutcomes :
                 LET s == Persist(ts, maxID, ioOk)
                 IN /\ tasks' = ts
                    /\ file' = s.file
                    /\ lastSave' = s.lastSave
                    /\ ret' = Call("DeleteTask", id, <<>>, 0, s.err)
    /\ UNCHANGED <<readers, diskFails, mu, callers, kind, maxID, isActive, backups, routines, now, lastIssued,
                   closedTasks>>

-----------------------------------------------------------------------------
(* MarkTaskComplete and MarkTaskIncomplete of FileStore *)

\* the body both calls share: GetTask(id), the two assignments to the copy
\* (status st, completed timestamp at), then UpdateTask of the copy
MarkTask(op, id, st, at) ==
    /\ IF checkActive # ErrNil
       THEN /\ ret' = Call(op, id, <<>>, 0, checkActive)
            /\ UNCHANGED <<tasks, lastSave, file>>
       ELSE IF ~Exists(tasks, id)
       THEN /\ ret' = Call(op, id, <<>>, 0, ErrTaskNotFound)
            /\ UNCHANGED <<tasks, lastSave, file>>
       ELSE LET task == [tasks[id] EXCEPT !.Status = st, !.CompletedAt = at]
            IN IF Validate(task, now) # ErrNil
               THEN /\ ret' = Call(op, id, <<>>, 0, ErrTaskValidation)
                    /\ UNCHANGED <<tasks, lastSave, file>>
               ELSE LET t2 == [task EXCEPT !.UpdatedAt = now]
                        ts == MapPut(tasks, t2.ID, t2)
                    IN \E ioOk \in WriteOutcomes :
                         LET s == Persist(ts, maxID, ioOk)
                         IN /\ tasks' = ts
                            /\ file' = s.file
                            /\ lastSave' = s.lastSave
                            /\ ret' = Call(op, id, <<>>, 0, s.err)
    /\ UNCHANGED <<readers, diskFails, mu, callers, kind, maxID, isActive,
                   backups, routines, now, lastIssued, closedTasks>>

\* FileStore.MarkTaskComplete
MarkTaskComplete(id) ==
    kind = "file" /\ MarkTask("MarkTaskComplete", id, Completed, now)

\* FileStore.MarkTaskIncomplete
MarkTaskIncomplete(id) ==
    kind = "file" /\ MarkTask("MarkTaskIncomplete", id, NotStarted, ZeroTime)

-----------------------------------------------------------------------------
(* Batch operations of FileStore *)

RECURSIVE CreateLoop(_, _, _, _)
\* the loop of CreateTasks over list[i..]: the counter is raised and the task
\* stamped before it is validated; the first invalid task ends the loop
CreateLoop(list, i, ts, mx) ==
    IF i > Len(list) THEN [tasks |-> ts, maxID |-> mx, err |-> ErrNil]
    ELSE LET t2 == [list[i] EXCEPT !.ID = Inc(mx), !.CreatedAt = now,
                                   !.UpdatedAt = now]
         IN IF Validate(t2, now) # ErrNil
            THEN [tasks |-> ts, maxID |-> Inc(mx), err |-> ErrBatchValidation]
            ELSE CreateLoop(list, i + 1, MapPut(ts, t2.ID, t2), Inc(mx))

\* FileStore.CreateTasks
CreateTasks(list) ==
    /\ kind = "file"
    /\ IF checkActive # ErrNil
       THEN /\ ret' = Call("CreateTasks", 0, <<>>, 0, checkActive)
            /\ UNCHANGED <<tasks, maxID, lastSave, file>>
       ELSE LET c == CreateLoop(list, 1, tasks, maxID)
            IN /\ tasks' = c.tasks
               /\ maxID' = c.maxID
               /\ IF c.err # ErrNil
                  THEN /\ ret' = Call("CreateTasks", 0, <<>>, 0, c.err)
                       /\ UNCHANGED <<lastSave, file>>
                  ELSE \E ioOk \in WriteOutcomes :
                         LET s == saveIfNeeded(c.tasks, c.maxID, ioOk, now)
                         IN /\ file' = s.file
                            /\ lastSave' = s.lastSave
                            /\ ret' = Call("CreateTasks", 0, <<>>, 0, s.err)
    /\ UNCHANGED <<readers, diskFails, mu, callers, kind, isActive, backups, routines, now, lastIssued, closedTasks>>

RECURSIVE DeleteLoop(_, _, _)
\* the loop of DeleteTasks over ids[i..]: each ID is looked up and deleted in
\* turn; the first absent ID ends the loop
DeleteLoop(ids, i, ts) ==
    IF i > Len(ids) THEN [tasks |-> ts, err |-> ErrNil]
    ELSE IF ~Exists(ts, ids[i]) THEN [tasks |-> ts, err |-> ErrTaskNotFound]
    ELSE DeleteLoop(ids, i + 1, MapDelete(ts, ids[i]))

\* FileStore.DeleteTasks
DeleteTasks(ids) ==
    /\ kind = "file"
    /\ IF checkActive # ErrNil
       THEN /\ ret' = Call("DeleteTasks", 0, ids, 0, checkActive)
            /\ UNCHANGED <<tasks, lastSave, file>>
       ELSE LET d == DeleteLoop(ids, 1, tasks)
            IN /\ tasks' = d.tasks
               /\ IF d.err # ErrNil
                  THEN /\ ret' = Call("DeleteTasks", 0, ids, 0, d.err)
                       /\ UNCHANGED <<lastSave, file>>
                  ELSE \E ioOk \in WriteOutcomes :
                         LET s == saveIfNeeded(d.tasks, maxID, ioOk, now)
                         IN /\ file' = s.file
                            /\ lastSave' = s.lastSave
                            /\ ret' = Call("DeleteTasks", 0, ids, 0, s.err)
    /\ UNCHANGED <<readers, diskFails, mu, callers, kind, maxID, isActive, backups, routines, now, lastIssued,
                   closedTasks>>

-----------------------------------------------------------------------------
(* Import, Export, Backup, Restore *)

\* strconv.Itoa
Itoa(n) == ToString(n)
\* the integers whose decimal form the model's csv cells can hold
AtoiRange == 0..(MaxID + 1) \cup {MaxInt}
\* strconv.Atoi with its error dropped: 0 for a cell that is no number
Atoi(cell) ==
    IF \E n \in AtoiRange : Itoa(n) = cell
    THEN CHOOSE n \in AtoiRange : Itoa(n) = cell
    ELSE 0

\* Time.Format(time.RFC3339)
FormatRFC3339(t) == IF t = ZeroTime THEN "0001-01-01T00:00:00Z" ELSE "T" \o ToString(t)
\* time.Parse(time.RFC3339, cell) with its error dropped: the zero time for a
\* cell that is no time
ParseRFC3339(cell) ==
    IF \E t \in 1..(MaxTime + 1) : FormatRFC3339(t) = cell
    THEN CHOOSE t \in 1..(MaxTime + 1) : FormatRFC3339(t) = cell
    ELSE ZeroTime

\* TaskStatus.String
StatusString(st) ==
    CASE st = NotStarted -> "Not Started"
      [] st = InProgress -> "In Progress"
      [] st = Completed -> "Completed"
      [] st = Archived -> "Archived"
      [] OTHER -> "Unknown"

\* Priority.String
PriorityString(pr) ==
    CASE pr = Low -> "Low"
      [] pr = Medium -> "Medium"
      [] pr = High -> "High"
      [] pr = Urgent -> "Urgent"
      [] OTHER -> "Unknown"

RECURSIVE JoinTags(_)
\* strings.Join(tags, ";")
JoinTags(tags) ==
    IF Len(tags) = 0 THEN ""
    ELSE IF Len(tags) = 1 THEN tags[1]
    ELSE tags[1] \o ";" \o JoinTags(Tail(tags))

\* the tag names of the model, none of them holding a ";", and the lists of
\* one or two of them
TagNames == {"", "x", "y"}
TagLists == {<<a>> : a \in TagNames} \cup {<<a, b>> : a, b \in TagNames}

\* strings.Split(cell, ";"): the pieces between the separators, so one piece
\* (the cell itself, be it empty) for a cell without a separator
SplitTags(cell) ==
    IF \E tags \in TagLists : JoinTags(tags) = cell
    THEN CHOOSE tags \in TagLists : JoinTags(tags) = cell
    ELSE <<cell>>

\* the models.Task importFromCSV builds from one csv record of 10 fields
TaskOfRecord(record) ==
    [ZeroTask EXCEPT
        !.ID = Atoi(record[1]),
        !.Name = record[2],
        !.Description = record[3],
        !.Category = record[6],
        !.Tags = SplitTags(record[10]),
        !.CreatedAt = ParseRFC3339(record[7]),
        !.DueDate = ParseRFC3339(record[8]),
        !.CompletedAt = ParseRFC3339(record[9])]

\* the records of importFromCSV's loop that it does not skip, as tasks
RecordTasks(records) ==
    LET kept == SelectSeq(records, LAMBDA r : Len(r) >= 10)
    IN [i \in 1..Len(kept) |-> TaskOfRecord(kept[i])]

\* an import that throws the records of the map away
importReplacing(list) == LoadLoop(list, 1, <<>>, maxID)
\* FileStore.importFromFileData and the loop of FileStore.importFromCSV: the
\* tasks of list are merged into the map and the counter raised to cover them
importFromFileData(list) == LoadLoop(list, 1, tasks, maxID)

\* FileStore.Import.  A json input is a document; a csv input is the rows
\* that encoding/csv reads, the header row first
Import(data, format) ==
    /\ kind = "file"
    /\ IF checkActive # ErrNil
       THEN /\ ret' = Call("Import", 0, <<>>, 0, checkActive)
            /\ UNCHANGED <<tasks, maxID, lastSave, file>>
       ELSE IF format \notin {"json", "csv"}
       THEN /\ ret' = Call("Import", 0, <<>>, 0, ErrUnsupportedFormat)
            /\ UNCHANGED <<tasks, maxID, lastSave, file>>
       ELSE IF format = "csv" /\ Len(data) = 0
       THEN /\ ret' = Call("Import", 0, <<>>, 0, ErrEOF)
            /\ UNCHANGED <<tasks, maxID, lastSave, file>>
       ELSE IF format = "csv" /\ \E i \in DOMAIN data : Len(data[i]) # Len(data[1])
       THEN /\ ret' = Call("Import", 0, <<>>, 0, ErrFieldCount)
            /\ UNCHANGED <<tasks, maxID, lastSave, file>>
       ELSE LET list == IF format = "json" THEN UnmarshalFileData(data).Tasks
                        ELSE RecordTasks(Tail(data))
                m == importFromFileData(list)
            IN \E ioOk \in WriteOutcomes :
                 LET s == save(m.tasks, m.maxID, ioOk, now)
                 IN /\ tasks' = m.tasks
                    /\ maxID' = m.maxID
                    /\ file' = s.file
                    /\ lastSave' = s.lastSave
                    /\ ret' = Call("Import", 0, <<>>, 0, s.err)
    /\ UNCHANGED <<readers, diskFails, mu, callers, kind, isActive, backups, routines, now, lastIssued, closedTasks>>

\* FileStore.Export
Export(format) ==
    /\ kind = "file"
    /\ ret' = Call("Export", 0, <<>>, 0,
                   IF checkActive # ErrNil THEN checkActive
                   ELSE IF format \notin {"json", "csv"} THEN ErrUnsupportedFormat
                   ELSE ErrNil)
    /\ UNCHANGED <<readers, diskFails, mu, callers, kind, tasks, maxID, isActive, lastSave, file, backups,
                   routines, now, lastIssued, closedTasks>>

\* FileStore.Backup: the snapshot goes to filePath.backup.<now>
Backup ==
    /\ kind = "file"
    /\ IF checkActive # ErrNil
       THEN /\ ret' = Call("Backup", 0, <<>>, 0, checkActive)
            /\ UNCHANGED backups
       ELSE \E ioOk \in WriteOutcomes :
              IF ioOk
              THEN /\ backups' =
                        [b \in DOMAIN backups \cup {now} |->
                            IF b = now
                            THEN MarshalFileData(prepareFileData(tasks, maxID, now))
                            ELSE backups[b]]
                   /\ ret' = Call("Backup", 0, <<>>, 0, ErrNil)
              ELSE /\ ret' = Call("Backup", 0, <<>>, 0, ErrWriteFile)
                   /\ UNCHANGED backups
    /\ UNCHANGED <<readers, diskFails, mu, callers, kind, tasks, maxID, isActive, lastSave, file, routines, now,
                   lastIssued, closedTasks>>

\* FileStore.Restore: the map is replaced by the snapshot's tasks, the counter
\* kept and raised, and the result saved
Restore(backupID) ==
    /\ kind = "file"
    /\ IF checkActive # ErrNil
       THEN /\ ret' = Call("Restore", backupID, <<>>, 0, checkActive)
            /\ UNCHANGED <<tasks, maxID, lastSave, file>>
       ELSE IF backupID \notin DOMAIN backups
       THEN /\ ret' = Call("Restore", backupID, <<>>, 0, ErrReadFile)
            /\ UNCHANGED <<tasks, maxID, lastSave, file>>
       ELSE LET m == LoadLoop(UnmarshalFileData(backups[backupID]).Tasks, 1,
                              <<>>, maxID)
            IN \E ioOk \in WriteOutcomes :
                 LET s == save(m.tasks, m.maxID, ioOk, now)
                 IN /\ tasks' = m.tasks
                    /\ maxID' = m.maxID
                    /\ file' = s.file
                    /\ lastSave' = s.lastSave
                    /\ ret' = Call("Restore", backupID, <<>>, 0, s.err)
    /\ UNCHANGED <<readers, diskFails, mu, callers, kind, isActive, backups, routines, now, lastIssued, closedTasks>>

-----------------------------------------------------------------------------
(* Queries *)

\* MemoryStore.ListTasks / FileStore.ListTasks
ListTasks ==
    /\ ret' = Call("ListTasks", 0, <<>>, 0, checkActive)
    /\ UNCHANGED <<readers, diskFails, mu, callers, kind, tasks, maxID, isActive, lastSave, file, backups,
                   routines, now, lastIssued, closedTasks>>

\* MemoryStore.SearchTasks / FileStore.SearchTasks
SearchTasks ==
    /\ ret' = Call("SearchTasks", 0, <<>>, 0, checkActive)
    /\ UNCHANGED <<readers, diskFails, mu, callers, kind, tasks, maxID, isActive, lastSave, file, backups,
                   routines, now, lastIssued, closedTasks>>

\* MemoryStore.GetTaskSummary
GetTaskSummary ==
    /\ kind = "memory"
    /\ ret' = Call("GetTaskSummary", 0, <<>>, 0, checkActive)
    /\ UNCHANGED <<readers, diskFails, mu, callers, kind, tasks, maxID, isActive, lastSave, file, backups,
                   routines, now, lastIssued, closedTasks>>

-----------------------------------------------------------------------------
(* ListTasks with its arguments: storage.Filter, storage.SortOption,
   storage.Page, and the helpers matchesFilter, sortTasks, paginateTasks *)

\* a nil pointer to a TaskStatus, a Priority or a time.Time in a Filter
NilPtr == -1

\* a nil *storage.Filter; set tells a pointer that is not nil
NoFilter ==
    [set |-> FALSE, Status |-> NilPtr, Priority |-> NilPtr, Category |-> "",
     Tags |-> <<>>, DueBefore |-> NilPtr, DueAfter |-> NilPtr,
     IsOverdue |-> FALSE, SearchTerm |-> ""]
\* &storage.Filter{}
EmptyFilter == [NoFilter EXCEPT !.set = TRUE]

\* a nil *storage.SortOption and a nil *storage.Page
NoSort == [set |-> FALSE, Field |-> "", Ascending |-> FALSE]
NoPage == [set |-> FALSE, Offset |-> 0, Limit |-> 0]

\* strings.ToLower on the strings of the model
ToLower(str) ==
    CASE str = "A" -> "a"
      [] str = "DUE_DATE" -> "due_date"
      [] OTHER -> str

\* strings.Contains on the strings of the model, none of which is longer
\* than one character: the empty string is in every string
Contains(str, sub) == sub = "" \/ str = sub

\* the strings of names and categories in the order of the operator <
StringOrder == <<"", "a", "b", "c">>
StringLess(a, b) ==
    \E i, j \in DOMAIN StringOrder :
        StringOrder[i] = a /\ StringOrder[j] = b /\ i < j

\* the tag loops of matchesFilter: some tag of the filter is on the task
SharesTag(filterTags, taskTags) ==
    \E i \in DOMAIN filterTags, j \in DOMAIN taskTags :
        filterTags[i] = taskTags[j]

\* MemoryStore.matchesFilter at time t
memMatchesFilter(task, filter, t) ==
    IF ~filter.set THEN TRUE
    ELSE IF filter.Status # NilPtr /\ task.Status # filter.Status THEN FALSE
    ELSE IF filter.Priority # NilPtr /\ task.Priority # filter.Priority THEN FALSE
    ELSE IF filter.Category # "" /\ task.Category # filter.Category THEN FALSE
    ELSE IF Len(filter.Tags) > 0 /\ ~SharesTag(filter.Tags, task.Tags) THEN FALSE
    ELSE IF filter.DueBefore # NilPtr /\ ~(task.DueDate < filter.DueBefore)
    THEN FALSE
    ELSE IF filter.DueAfter # NilPtr /\ ~(task.DueDate > filter.DueAfter)
    THEN FALSE
    ELSE IF filter.IsOverdue /\ ~IsOverdue(task, t) THEN FALSE
    ELSE TRUE

\* FileStore.matchesFilter at time t
fileMatchesFilter(task, filter, t) ==
    IF ~filter.set THEN TRUE
    ELSE IF filter.Status # NilPtr /\ task.Status # filter.Status THEN FALSE
    ELSE IF filter.Priority # NilPtr /\ task.Priority # filter.Priority THEN FALSE
    ELSE IF filter.Category # "" /\ task.Category # filter.Category THEN FALSE
    ELSE IF Len(filter.Tags) > 0 /\ ~SharesTag(filter.Tags, task.Tags) THEN FALSE
    ELSE IF filter.DueBefore # NilPtr /\ ~(task.DueDate < filter.DueBefore)
    THEN FALSE
    ELSE IF filter.DueAfter # NilPtr /\ ~(task.DueDate > filter.DueAfter)
    THEN FALSE
    ELSE IF filter.IsOverdue /\ (~(task.DueDate < t) \/ task.Status = Completed)
    THEN FALSE
    ELSE IF filter.SearchTerm # ""
            /\ ~Contains(ToLower(task.Name), ToLower(filter.SearchTerm))
            /\ ~Contains(ToLower(task.Description), ToLower(filter.SearchTerm))
            /\ ~Contains(ToLower(task.Category), ToLower(filter.SearchTerm))
    THEN FALSE
    ELSE TRUE

\* a filter that lets a task pass when its status or its priority matches
matchesFilterUnion(task, filter, t) ==
    \/ ~filter.set
    \/ filter.Status = NilPtr /\ filter.Priority = NilPtr
    \/ filter.Status # NilPtr /\ task.Status = filter.Status
    \/ filter.Priority # NilPtr /\ task.Priority = filter.Priority
\* matchesFilter of the store at hand
matchesFilter(task, filter, t) ==
    IF kind = "memory" THEN memMatchesFilter(task, filter, t)
    ELSE fileMatchesFilter(task, filter, t)

\* the less function of MemoryStore.sortTasks for tasks a and b; field is
\* the lowered sort.Field, and the direction was set to ascending before
memLess(field, a, b) ==
    CASE field = "due_date" -> a.DueDate < b.DueDate
      [] field = "priority" -> a.Priority < b.Priority
      [] field = "created_at" -> a.CreatedAt < b.CreatedAt
      [] field = "name" -> StringLess(a.Name, b.Name)
      [] OTHER -> a.ID < b.ID

\* the less function of FileStore.sortTasks for tasks a and b: a zero due
\* date and a zero completed timestamp return before the direction is looked
\* at
fileLess(field, ascending, a, b) ==
    LET Dir(result) == IF ascending THEN result ELSE ~result
    IN CASE field = "due_date" ->
              IF a.DueDate = ZeroTime THEN FALSE
              ELSE IF b.DueDate = ZeroTime THEN TRUE
              ELSE Dir(a.DueDate < b.DueDate)
         [] field = "priority" -> Dir(a.Priority < b.Priority)
         [] field = "created_at" -> Dir(a.CreatedAt < b.CreatedAt)
         [] field = "updated_at" -> Dir(a.UpdatedAt < b.UpdatedAt)
         [] field = "completed_at" ->
              IF a.CompletedAt = ZeroTime THEN FALSE
              ELSE IF b.CompletedAt = ZeroTime THEN TRUE
              ELSE Dir(a.CompletedAt < b.CompletedAt)
         [] field = "status" -> Dir(a.Status < b.Status)
         [] field = "category" -> Dir(StringLess(a.Category, b.Category))
         [] field = "name" -> Dir(StringLess(a.Name, b.Name))
         [] OTHER -> Dir(a.ID < b.ID)

\* the less function of sortTasks of the store k
sortLess(k, sort, a, b) ==
    IF k = "memory" THEN memLess(ToLower(sort.Field), a, b)
    ELSE fileLess(ToLower(sort.Field), sort.Ascending, a, b)

\* Swap of taskSorter
SwapAt(list, i, j) ==
    [list EXCEPT ![i] = list[j], ![j] = list[i]]

RECURSIVE SinkDown(_, _, _, _)
\* package sort, insertionSort, the inner loop:
\* for j := i; j > a && data.Less(j, j-1); j-- { data.Swap(j, j-1) }
SinkDown(k, sort, list, j) ==
    IF j > 1 /\ sortLess(k, sort, list[j], list[j - 1])
    THEN SinkDown(k, sort, SwapAt(list, j, j - 1), j - 1)
    ELSE list

RECURSIVE insertionSort(_, _, _, _)
\* package sort, Sort: a slice shorter than 12 is sorted by insertionSort
insertionSort(k, sort, list, i) ==
    IF i > Len(list) THEN list
    ELSE insertionSort(k, sort, SinkDown(k, sort, list, i), i + 1)

\* the panic of SortOption.Sort and of a slice expression out of range
PanicUnimplemented == "unimplemented"
PanicSliceBounds == "slice bounds out of range"

\* sortTasks of the store k.  In sortTasks the name sort is the parameter, so
\* sort.Sort(sorter) is the method SortOption.Sort, a stub that panics; were
\* it the Sort of package sort, which the file of FileStore imports, the
\* slice is sorted by the less function.  stub tells which of the two it is
sortTasks(k, list, sort, stub) ==
    IF ~sort.set THEN [tasks |-> list, panic |-> ""]
    ELSE IF stub THEN [tasks |-> list, panic |-> PanicUnimplemented]
    ELSE [tasks |-> insertionSort(k, sort, list, 2), panic |-> ""]

\* x + y on an int: Go wraps on overflow
AddInt(x, y) ==
    IF y > 0 /\ x > MaxInt - y THEN MinInt + ((x - (MaxInt - y)) - 1)
    ELSE IF y < 0 /\ x < MinInt - y THEN MaxInt + ((x - (MinInt - y)) + 1)
    ELSE x + y

\* paginateTasks: tasks[start:end] panics when start is negative or end is
\* before start
paginateTasks(list, page) ==
    IF ~page.set \/ page.Limit <= 0 THEN [tasks |-> list, panic |-> ""]
    ELSE LET start == page.Offset
         IN IF start >= Len(list) THEN [tasks |-> <<>>, panic |-> ""]
            ELSE LET sum == AddInt(start, page.Limit)
                     end == IF sum > Len(list) THEN Len(list) ELSE sum
                 IN IF start < 0 \/ end < start
                    THEN [tasks |-> <<>>, panic |-> PanicSliceBounds]
                    ELSE [tasks |-> SubSeq(list, start + 1, end), panic |-> ""]

\* the orders in which a range over a map can visit the keys S
Orders(S) ==
    {f \in [1..Cardinality(S) -> S] :
        \A i, j \in 1..Cardinality(S) : i # j => f[i] # f[j]}

\* what ListTasks leaves for its caller: its arguments, the slice returned,
\* the error returned, the panic that ended the call if one did
ListCall(filter, sort, page, list, panic, err) ==
    [op |-> "ListTasks", id |-> 0, ids |-> <<>>, out |-> 0, err |-> err,
     filter |-> filter, sort |-> sort, page |-> page, list |-> list,
     panic |-> panic]

\* MemoryStore.ListTasks / FileStore.ListTasks with a filter, a sort option
\* and a page
List(filter, sort, page) ==
    /\ IF checkActive # ErrNil
       THEN ret' = ListCall(filter, sort, page, <<>>, "", checkActive)
       ELSE \E order \in Orders({id \in DOMAIN tasks :
                                   matchesFilter(tasks[id], filter, now)}),
               stub \in (IF sort.set THEN BOOLEAN ELSE {FALSE}) :
              LET matching == [i \in DOMAIN order |-> tasks[order[i]]]
                  sorted == sortTasks(kind, matching, sort, stub)
                  paged == IF sorted.panic # "" THEN sorted
                           ELSE IF page.set THEN paginateTasks(sorted.tasks, page)
                           ELSE sorted
              IN ret' = ListCall(filter, sort, page, paged.tasks, paged.panic,
                                 ErrNil)
    /\ UNCHANGED <<readers, diskFails, mu, callers, kind, tasks, maxID, isActive,
                   lastSave, file, backups, routines, now, lastIssued,
                   closedTasks>>

\* the overdue test of MemoryStore.GetTaskSummary at time t
summaryOverdue(task, t) ==
    task.DueDate # ZeroTime /\ task.DueDate < t /\ task.Status # Completed

\* what GetTaskSummary leaves for its caller: the counts of the TaskSummary
SummaryCall(total, completed, pending, overdue, err) ==
    [op |-> "GetTaskSummary", id |-> 0, ids |-> <<>>, out |-> 0, err |-> err,
     TotalTasks |-> total, CompletedTasks |-> completed,
     PendingTasks |-> pending, OverdueTasks |-> overdue]

\* MemoryStore.GetTaskSummary with the counts it returns
Summary ==
    /\ kind = "memory"
    /\ ret' = IF checkActive # ErrNil THEN SummaryCall(0, 0, 0, 0, checkActive)
              ELSE LET done == {id \in DOMAIN tasks : tasks[id].Status = Completed}
                       late == {id \in DOMAIN tasks :
                                   summaryOverdue(tasks[id], now)}
                   IN SummaryCall(Cardinality(DOMAIN tasks), Cardinality(done),
                                  Cardinality(DOMAIN tasks \ done),
                                  Cardinality(late), ErrNil)
    /\ UNCHANGED <<readers, diskFails, mu, callers, kind, tasks, maxID, isActive,
                   lastSave, file, backups, routines, now, lastIssued,
                   closedTasks>>

\* float64(completedTasks) / float64(totalTasks) * 100: the quotient of two
\* integers as a fraction, not a number when both are zero
CompletionRate(completed, total) ==
    [nan |-> total = 0 /\ completed = 0, num |-> completed * 100, den |-> total]

\* what GetProductivityStats leaves for its caller: its arguments and the
\* entries of the map it returns
StatsCall(startDate, endDate, total, completed, overdue, rate, err) ==
    [op |-> "GetProductivityStats", id |-> 0, ids |-> <<>>, out |-> 0,
     err |-> err, startDate |-> startDate, endDate |-> endDate,
     total_tasks |-> total, completed_tasks |-> completed,
     overdue_tasks |-> overdue, completion_rate |-> rate]

\* the tasks GetProductivityStats does not skip: created within the window
InWindow(ts, startDate, endDate) ==
    {id \in DOMAIN ts :
        ~(ts[id].CreatedAt < startDate \/ ts[id].CreatedAt > endDate)}

\* FileStore.GetProductivityStats
GetProductivityStats(startDate, endDate) ==
    /\ kind = "file"
    /\ ret' = IF checkActive # ErrNil
              THEN StatsCall(startDate, endDate, 0, 0, 0,
                             CompletionRate(0, 1), checkActive)
              ELSE LET in == InWindow(tasks, startDate, endDate)
                       done == {id \in in : tasks[id].Status = Completed}
                       late == {id \in in : IsOverdue(tasks[id], now)}
                   IN StatsCall(startDate, endDate, Cardinality(in),
                                Cardinality(done), Cardinality(late),
                                CompletionRate(Cardinality(done), Cardinality(in)),
                                ErrNil)
    /\ UNCHANGED <<readers, diskFails, mu, callers, kind, tasks, maxID, isActive,
                   lastSave, file, backups, routines, now, lastIssued,
                   closedTasks>>

-----------------------------------------------------------------------------
(* The environment: the auto-save goroutines, the clock, a new process *)

\* the record map a load of the file would give equals the map in memory
FileReflects == loadFromFile(file, 0).tasks = tasks

\* an auto-save that saves only when saveIfNeeded would
tickSaveIfNeeded(ts, mx, ioOk, t) == saveIfNeeded(ts, mx, ioOk, t)
\* the save of autoSaveRoutine: f.save() on every tick
tickSave(ts, mx, ioOk, t) == save(ts, mx, ioOk, t)

\* one turn of the loop of FileStore.autoSaveRoutine for the i-th goroutine,
\* once its ticker has fired; ret.out tells whether the file was behind the
\* map when the turn began
AutoSaveTick(i) ==
    /\ i \in DOMAIN routines
    /\ now >= routines[i]
    /\ IF ~isActive
       THEN /\ routines' = [j \in 1..(Len(routines) - 1) |->
                               IF j < i THEN routines[j] ELSE routines[j + 1]]
            /\ UNCHANGED <<lastSave, file>>
       ELSE \E ioOk \in WriteOutcomes :
              LET s == tickSave(tasks, maxID, ioOk, now)
              IN /\ file' = s.file
                 /\ lastSave' = s.lastSave
                 /\ routines' = [routines EXCEPT ![i] = @ + AutoSaveTime]
    /\ ret' = Call("autoSaveRoutine", 0, <<>>, IF FileReflects THEN 0 ELSE 1, ErrNil)
    /\ UNCHANGED <<readers, diskFails, mu, callers, kind, tasks, maxID, isActive, backups, now, lastIssued,
                   closedTasks>>

\* d minutes pass
Tick(d) ==
    /\ now' = now + d
    /\ ret' = Call("Tick", 0, <<>>, 0, ErrNil)
    /\ UNCHANGED <<readers, diskFails, mu, callers, kind, tasks, maxID, isActive, lastSave, file, backups,
                   routines, lastIssued, closedTasks>>

\* d minutes pass, none of them past a tick of a ticker: a ticker fires on
\* time and its goroutine runs before the clock moves on
TickDue(d) ==
    /\ \A i \in DOMAIN routines : now + d <= routines[i]
    /\ Tick(d)

\* NewFileStore on the same path after the store was closed: a new process,
\* with an empty map, a zero counter and no goroutine of the old one
NewFileStore ==
    /\ kind = "file"
    /\ ~isActive
    /\ tasks' = <<>>
    /\ maxID' = 0
    /\ lastSave' = ZeroTime
    /\ routines' = <<>>
    /\ ret' = Call("NewFileStore", 0, <<>>, 0, ErrNil)
    /\ UNCHANGED <<readers, diskFails, mu, callers, kind, isActive, file, backups, now, lastIssued,
                   closedTasks>>

-----------------------------------------------------------------------------
(* Concurrent callers of CreateTask and of TaskStore.AddTask.  Each statement
   that reads or writes the store is a step of its own; mu is what keeps the
   steps of two callers apart.  For a TaskStore, maxID holds its NextID. *)

\* task.Task.Validate of package task
ValidateItem(item) ==
    IF item.Name = "" THEN ErrTaskValidation
    ELSE IF item.Priority \notin {"", "low", "medium", "high"} THEN ErrTaskValidation
    ELSE ErrNil

\* a caller between two calls: calls counts the calls it made, got lists the
\* IDs its successful calls received
IdleCaller ==
    [pc |-> "idle", task |-> ZeroTask, err |-> ErrNil, calls |-> 0, got |-> <<>>]

\* the name caller p gives its tasks
NameOf(p) == "p" \o ToString(p)

\* a Lock that does not wait
CanLockAlways == TRUE
\* m.mu.Lock() returns once no caller holds mu, for writing or for reading
CanLock == mu = 0 /\ readers = {}

\* where a caller stands that has called mu.Lock() and waits for it
LockWaitPcs == {"lock", "ulock", "alock", "dlock", "clock"}

\* an RLock that does not wait
CanRLockAlways == TRUE
\* f.mu.RLock() returns once no caller holds mu for writing or waits for that
\* (sync.RWMutex holds new readers back while a Lock is pending)
CanRLock ==
    /\ mu = 0
    /\ \A q \in DOMAIN callers : callers[q].pc \notin LockWaitPcs

\* a deferred Unlock that is skipped
deferUnlockSkipped(p) == p
\* the holder of mu after the deferred f.mu.Unlock() of caller p: nobody
deferUnlock(p) == 0

\* caller p moves to pc2 with its task and error set
Goto(p, pc2, task, err) ==
    callers' = [callers EXCEPT ![p] = [@ EXCEPT !.pc = pc2, !.task = task,
                                                !.err = err]]

\* caller p returns err, and the ID written into its task when err is nil
Return(p, op, err) ==
    /\ callers' = [callers EXCEPT ![p] =
                      [@ EXCEPT !.pc = "idle", !.err = err, !.calls = @ + 1,
                                !.got = IF err = ErrNil
                                        THEN Append(@, callers[p].task.ID) ELSE @]]
    /\ ret' = Call(op, p, <<>>, callers[p].task.ID, err)

\* CreateTask up to the lock: checkActive and task.Validate, without mu; a
\* call that fails there returns
CreateBegin(p) ==
    /\ kind \in {"memory", "file"}
    /\ callers[p].pc = "idle"
    /\ callers[p].calls < MaxCalls
    /\ LET task == [ZeroTask EXCEPT !.Name = NameOf(p)]
           err == IF checkActive # ErrNil THEN checkActive
                  ELSE IF Validate(task, now) # ErrNil THEN ErrTaskValidation
                  ELSE ErrNil
       IN IF err # ErrNil
          THEN /\ callers' = [callers EXCEPT ![p] =
                                 [@ EXCEPT !.task = task, !.err = err,
                                           !.calls = @ + 1]]
               /\ ret' = Call("CreateTask", p, <<>>, task.ID, err)
          ELSE /\ Goto(p, "lock", task, ErrNil)
               /\ UNCHANGED ret
    /\ UNCHANGED <<readers, diskFails, kind, tasks, maxID, isActive, lastSave, file, backups,
                   routines, now, lastIssued, closedTasks, mu>>

\* m.mu.Lock()
CreateLock(p) ==
    /\ kind \in {"memory", "file"}
    /\ callers[p].pc = "lock"
    /\ CanLock
    /\ mu' = p
    /\ Goto(p, "inc", callers[p].task, ErrNil)
    /\ UNCHANGED <<readers, diskFails, kind, tasks, maxID, isActive, lastSave, file, backups,
                   routines, now, ret, lastIssued, closedTasks>>

\* m.maxID++
CreateInc(p) ==
    /\ kind \in {"memory", "file"}
    /\ callers[p].pc = "inc"
    /\ maxID' = Inc(maxID)
    /\ Goto(p, "assign", callers[p].task, ErrNil)
    /\ UNCHANGED <<readers, diskFails, kind, tasks, isActive, lastSave, file, backups, routines,
                   now, ret, lastIssued, closedTasks, mu>>

\* task.ID = m.maxID and the two time stamps
CreateAssign(p) ==
    /\ callers[p].pc = "assign"
    /\ Goto(p, "insert",
            [callers[p].task EXCEPT !.ID = maxID, !.CreatedAt = now,
                                    !.UpdatedAt = now], ErrNil)
    /\ UNCHANGED <<readers, diskFails, kind, tasks, maxID, isActive, lastSave, file, backups,
                   routines, now, ret, lastIssued, closedTasks, mu>>

\* m.tasks[task.ID] = *task
CreateInsert(p) ==
    /\ kind \in {"memory", "file"}
    /\ callers[p].pc = "insert"
    /\ tasks' = MapPut(tasks, callers[p].task.ID, callers[p].task)
    /\ Goto(p, "save", callers[p].task, ErrNil)
    /\ UNCHANGED <<readers, diskFails, kind, maxID, isActive, lastSave, file, backups, routines,
                   now, ret, lastIssued, closedTasks, mu>>

\* return f.saveIfNeeded() of a FileStore, return nil of a MemoryStore
CreateSave(p) ==
    /\ callers[p].pc = "save"
    /\ \E ioOk \in WriteOutcomes :
         LET s == Persist(tasks, maxID, ioOk)
         IN /\ file' = s.file
            /\ lastSave' = s.lastSave
            /\ Goto(p, "unlock", callers[p].task, s.err)
    /\ UNCHANGED <<readers, diskFails, kind, tasks, maxID, isActive, backups, routines, now, ret,
                   lastIssued, closedTasks, mu>>

\* the deferred m.mu.Unlock() and the return
CreateUnlock(p) ==
    /\ kind \in {"memory", "file"}
    /\ callers[p].pc = "unlock"
    /\ mu' = 0
    /\ Return(p, "CreateTask", callers[p].err)
    /\ UNCHANGED <<readers, diskFails, kind, tasks, maxID, isActive, lastSave, file, backups,
                   routines, now, lastIssued, closedTasks>>

\* TaskStore.AddTask: ts.mu.Lock()
AddLock(p) ==
    /\ kind = "taskstore"
    /\ callers[p].pc = "idle"
    /\ callers[p].calls < MaxCalls
    /\ CanLock
    /\ mu' = p
    /\ Goto(p, "build", callers[p].task, ErrNil)
    /\ UNCHANGED <<readers, diskFails, kind, tasks, maxID, isActive, lastSave, file, backups,
                   routines, now, ret, lastIssued, closedTasks>>

\* task := Task{ID: ts.NextID, ...} and task.Validate()
AddBuild(p) ==
    /\ kind = "taskstore"
    /\ callers[p].pc = "build"
    /\ \E name \in {NameOf(p), ""} :
         LET item == [ID |-> maxID, Name |-> name, Priority |-> "low",
                      DueDate |-> ZeroTime, CreatedAt |-> now]
         IN IF ValidateItem(item) # ErrNil
            THEN Goto(p, "unlock", item, ErrTaskValidation)
            ELSE Goto(p, "insert", item, ErrNil)
    /\ UNCHANGED <<readers, diskFails, kind, tasks, maxID, isActive, lastSave, file, backups,
                   routines, now, ret, lastIssued, closedTasks, mu>>

\* ts.Tasks[ts.NextID] = task
AddInsert(p) ==
    /\ kind = "taskstore"
    /\ callers[p].pc = "insert"
    /\ tasks' = MapPut(tasks, maxID, callers[p].task)
    /\ Goto(p, "inc", callers[p].task, ErrNil)
    /\ UNCHANGED <<readers, diskFails, kind, maxID, isActive, lastSave, file, backups, routines,
                   now, ret, lastIssued, closedTasks, mu>>

\* ts.NextID++
AddInc(p) ==
    /\ kind = "taskstore"
    /\ callers[p].pc = "inc"
    /\ maxID' = Inc(maxID)
    /\ Goto(p, "unlock", callers[p].task, ErrNil)
    /\ UNCHANGED <<readers, diskFails, kind, tasks, isActive, lastSave, file, backups, routines,
                   now, ret, lastIssued, closedTasks, mu>>

\* the deferred ts.mu.Unlock() and the return
AddUnlock(p) ==
    /\ kind = "taskstore"
    /\ callers[p].pc = "unlock"
    /\ mu' = 0
    /\ Return(p, "AddTask", callers[p].err)
    /\ UNCHANGED <<readers, diskFails, kind, tasks, maxID, isActive, lastSave, file, backups,
                   routines, now, lastIssued, closedTasks>>

-----------------------------------------------------------------------------
(* Concurrent callers of the other calls of a FileStore: GetTask for the
   calls that read under RLock (ListTasks and its GetTasksBy* wrappers,
   SearchTasks, Export take the lock the same way), UpdateTask for the calls
   that write under Lock, MarkTaskComplete, which calls GetTask and then
   UpdateTask, and the auto-save goroutine.  A caller of these carries the
   name of its call in the field op. *)

\* the ID the callers pass to GetTask and MarkTaskComplete
SharedID == 1

RECURSIVE CallsBegun(_)
\* the calls that the callers 1..n have made or are in
CallsBegun(n) ==
    IF n = 0 THEN 0
    ELSE CallsBegun(n - 1) + callers[n].calls
           + (IF callers[n].pc \in {"idle", "ended"} THEN 0 ELSE 1)

\* one more call may begin
MayCall == CallsBegun(Len(callers)) < MaxLockCalls

\* GetTask up to the lock: checkActive, without mu.  op is GetTask or, for
\* the first half of MarkTaskComplete, MarkTaskComplete
GetBegin(p, op) ==
    /\ callers[p].pc = "idle"
    /\ MayCall
    /\ LET task == [ZeroTask EXCEPT !.ID = SharedID]
       IN IF checkActive # ErrNil
          THEN /\ callers' = [callers EXCEPT ![p] =
                                 [@ EXCEPT !.op = op, !.task = task,
                                           !.err = checkActive, !.calls = @ + 1]]
               /\ ret' = Call(op, p, <<>>, task.ID, checkActive)
          ELSE /\ callers' = [callers EXCEPT ![p] =
                                 [@ EXCEPT !.op = op, !.pc = "rlock",
                                           !.task = task, !.err = ErrNil]]
               /\ UNCHANGED ret
    /\ UNCHANGED <<readers, diskFails, kind, tasks, maxID, isActive, lastSave, file, backups,
                   routines, now, lastIssued, closedTasks, mu>>

\* f.mu.RLock()
GetRLock(p) ==
    /\ callers[p].pc = "rlock"
    /\ CanRLock
    /\ readers' = readers \cup {p}
    /\ Goto(p, "read", callers[p].task, ErrNil)
    /\ UNCHANGED <<diskFails, kind, tasks, maxID, isActive, lastSave, file, backups,
                   routines, now, ret, lastIssued, closedTasks, mu>>

\* task, exists := f.tasks[id]
GetRead(p) ==
    /\ callers[p].pc = "read"
    /\ IF Exists(tasks, callers[p].task.ID)
       THEN Goto(p, "runlock", tasks[callers[p].task.ID], ErrNil)
       ELSE Goto(p, "runlock", callers[p].task, ErrTaskNotFound)
    /\ UNCHANGED <<readers, diskFails, kind, tasks, maxID, isActive, lastSave, file, backups,
                   routines, now, ret, lastIssued, closedTasks, mu>>

\* the deferred f.mu.RUnlock() and the return of GetTask: to the caller, or
\* into MarkTaskComplete or MarkTaskIncomplete, which go on when GetTask
\* found the task
GetRUnlock(p) ==
    /\ callers[p].pc = "runlock"
    /\ readers' = readers \ {p}
    /\ IF /\ callers[p].op \in {"MarkTaskComplete", "MarkTaskIncomplete"}
          /\ callers[p].err = ErrNil
       THEN /\ Goto(p, "mark", callers[p].task, ErrNil)
            /\ UNCHANGED ret
       ELSE Return(p, callers[p].op, callers[p].err)
    /\ UNCHANGED <<diskFails, kind, tasks, maxID, isActive, lastSave, file, backups,
                   routines, now, lastIssued, closedTasks, mu>>

\* MarkTaskComplete and MarkTaskIncomplete between their two calls: the
\* status and the completion time are set on the copy GetTask returned
MarkSet(p) ==
    /\ callers[p].pc = "mark"
    /\ Goto(p, "ubegin",
            IF callers[p].op = "MarkTaskIncomplete"
            THEN [callers[p].task EXCEPT !.Status = NotStarted,
                                         !.CompletedAt = ZeroTime]
            ELSE [callers[p].task EXCEPT !.Status = Completed,
                                         !.CompletedAt = now],
            ErrNil)
    /\ UNCHANGED <<readers, diskFails, kind, tasks, maxID, isActive, lastSave, file, backups,
                   routines, now, ret, lastIssued, closedTasks, mu>>

\* UpdateTask up to the lock: checkActive and task.Validate, without mu; a
\* call that fails there returns.  A caller starts it with a task of its
\* own, MarkTaskComplete with the task it has changed
UpdateBegin(p) ==
    /\ \/ callers[p].pc = "idle" /\ MayCall
       \/ callers[p].pc = "ubegin"
    /\ LET op == IF callers[p].pc = "idle" THEN "UpdateTask" ELSE callers[p].op
           task == IF callers[p].pc = "idle"
                   THEN [ZeroTask EXCEPT !.ID = SharedID, !.Name = NameOf(p)]
                   ELSE callers[p].task
           err == IF checkActive # ErrNil THEN checkActive
                  ELSE IF Validate(task, now) # ErrNil THEN ErrTaskValidation
                  ELSE ErrNil
       IN IF err # ErrNil
          THEN /\ callers' = [callers EXCEPT ![p] =
                                 [@ EXCEPT !.op = op, !.pc = "idle", !.task = task,
                                           !.err = err, !.calls = @ + 1]]
               /\ ret' = Call(op, p, <<>>, task.ID, err)
          ELSE /\ callers' = [callers EXCEPT ![p] =
                                 [@ EXCEPT !.op = op, !.pc = "ulock",
                                           !.task = task, !.err = ErrNil]]
               /\ UNCHANGED ret
    /\ UNCHANGED <<readers, diskFails, kind, tasks, maxID, isActive, lastSave, file, backups,
                   routines, now, lastIssued, closedTasks, mu>>

\* f.mu.Lock()
UpdateLock(p) ==
    /\ callers[p].pc = "ulock"
    /\ CanLock
    /\ mu' = p
    /\ Goto(p, "uwrite", callers[p].task, ErrNil)
    /\ UNCHANGED <<readers, diskFails, kind, tasks, maxID, isActive, lastSave, file, backups,
                   routines, now, ret, lastIssued, closedTasks>>

\* UpdateTask under the lock: the existence check, the time stamp, the
\* assignment to the map and saveIfNeeded
UpdateWrite(p) ==
    /\ callers[p].pc = "uwrite"
    /\ IF ~Exists(tasks, callers[p].task.ID)
       THEN /\ Goto(p, "uunlock", callers[p].task, ErrTaskNotFound)
            /\ UNCHANGED <<tasks, lastSave, file>>
       ELSE LET t2 == [callers[p].task EXCEPT !.UpdatedAt = now]
                ts == MapPut(tasks, t2.ID, t2)
            IN \E ioOk \in WriteOutcomes :
                 LET s == Persist(ts, maxID, ioOk)
                 IN /\ tasks' = ts
                    /\ file' = s.file
                    /\ lastSave' = s.lastSave
                    /\ Goto(p, "uunlock", t2, s.err)
    /\ UNCHANGED <<readers, diskFails, kind, maxID, isActive, backups, routines, now, ret,
                   lastIssued, closedTasks, mu>>

\* the deferred f.mu.Unlock() and the return, on success and on error alike
UpdateUnlock(p) ==
    /\ callers[p].pc = "uunlock"
    /\ mu' = deferUnlock(p)
    /\ Return(p, callers[p].op, callers[p].err)
    /\ UNCHANGED <<readers, diskFails, kind, tasks, maxID, isActive, lastSave, file, backups,
                   routines, now, lastIssued, closedTasks>>

\* the auto-save goroutine, as one more caller
Saver == NumCallers + 1

\* autoSaveRoutine after <-ticker.C: it ends when the store is not active
AutoCheck ==
    /\ callers[Saver].pc = "idle"
    /\ MayCall
    /\ callers' = [callers EXCEPT ![Saver] =
                      [@ EXCEPT !.op = "autoSaveRoutine",
                                !.pc = IF isActive THEN "alock" ELSE "ended"]]
    /\ UNCHANGED <<readers, diskFails, kind, tasks, maxID, isActive, lastSave, file, backups,
                   routines, now, ret, lastIssued, closedTasks, mu>>

\* f.mu.Lock() of autoSaveRoutine
AutoLock ==
    /\ callers[Saver].pc = "alock"
    /\ CanLock
    /\ mu' = Saver
    /\ Goto(Saver, "asave", callers[Saver].task, ErrNil)
    /\ UNCHANGED <<readers, diskFails, kind, tasks, maxID, isActive, lastSave, file, backups,
                   routines, now, ret, lastIssued, closedTasks>>

\* _ = f.save()
AutoSave ==
    /\ callers[Saver].pc = "asave"
    /\ \E ioOk \in WriteOutcomes :
         LET s == tickSave(tasks, maxID, ioOk, now)
         IN /\ file' = s.file
            /\ lastSave' = s.lastSave
    /\ Goto(Saver, "aunlock", callers[Saver].task, ErrNil)
    /\ UNCHANGED <<readers, diskFails, kind, tasks, maxID, isActive, backups, routines, now, ret,
                   lastIssued, closedTasks, mu>>

\* f.mu.Unlock() of autoSaveRoutine, and back to waiting for the ticker
AutoUnlock ==
    /\ callers[Saver].pc = "aunlock"
    /\ mu' = 0
    /\ callers' = [callers EXCEPT ![Saver] =
                      [@ EXCEPT !.pc = "idle", !.calls = @ + 1]]
    /\ UNCHANGED <<readers, diskFails, kind, tasks, maxID, isActive, lastSave, file, backups,
                   routines, now, ret, lastIssued, closedTasks>>

\* DeleteTask up to the lock: checkActive, without mu; a call that fails
\* there returns
DeleteBegin(p) ==
    /\ callers[p].pc = "idle"
    /\ MayCall
    /\ LET task == [ZeroTask EXCEPT !.ID = SharedID]
       IN IF checkActive # ErrNil
          THEN /\ callers' = [callers EXCEPT ![p] =
                                 [@ EXCEPT !.op = "DeleteTask", !.task = task,
                                           !.err = checkActive, !.calls = @ + 1]]
               /\ ret' = Call("DeleteTask", p, <<>>, task.ID, checkActive)
          ELSE /\ callers' = [callers EXCEPT ![p] =
                                 [@ EXCEPT !.op = "DeleteTask", !.pc = "dlock",
                                           !.task = task, !.err = ErrNil]]
               /\ UNCHANGED ret
    /\ UNCHANGED <<readers, diskFails, kind, tasks, maxID, isActive, lastSave,
                   file, backups, routines, now, lastIssued, closedTasks, mu>>

\* f.mu.Lock() of DeleteTask
DeleteLock(p) ==
    /\ callers[p].pc = "dlock"
    /\ CanLock
    /\ mu' = p
    /\ Goto(p, "dwrite", callers[p].task, ErrNil)
    /\ UNCHANGED <<readers, diskFails, kind, tasks, maxID, isActive, lastSave,
                   file, backups, routines, now, ret, lastIssued, closedTasks>>

\* DeleteTask under the lock: the existence check, the delete and
\* saveIfNeeded
DeleteWrite(p) ==
    /\ callers[p].pc = "dwrite"
    /\ IF ~Exists(tasks, callers[p].task.ID)
       THEN /\ Goto(p, "dunlock", callers[p].task, ErrTaskNotFound)
            /\ UNCHANGED <<tasks, lastSave, file>>
       ELSE LET ts == MapDelete(tasks, callers[p].task.ID)
            IN \E ioOk \in WriteOutcomes :
                 LET s == Persist(ts, maxID, ioOk)
                 IN /\ tasks' = ts
                    /\ file' = s.file
                    /\ lastSave' = s.lastSave
                    /\ Goto(p, "dunlock", callers[p].task, s.err)
    /\ UNCHANGED <<readers, diskFails, kind, maxID, isActive, backups, routines,
                   now, ret, lastIssued, closedTasks, mu>>

\* the deferred f.mu.Unlock() of DeleteTask and the return
DeleteUnlock(p) ==
    /\ callers[p].pc = "dunlock"
    /\ mu' = 0
    /\ Return(p, "DeleteTask", callers[p].err)
    /\ UNCHANGED <<readers, diskFails, kind, tasks, maxID, isActive, lastSave,
                   file, backups, routines, now, lastIssued, closedTasks>>

\* Close is called: it starts with f.mu.Lock()
CloseBegin(p) ==
    /\ callers[p].pc = "idle"
    /\ MayCall
    /\ callers' = [callers EXCEPT ![p] =
                      [@ EXCEPT !.op = "Close", !.pc = "clock",
                                !.task = ZeroTask, !.err = ErrNil]]
    /\ UNCHANGED <<readers, diskFails, kind, tasks, maxID, isActive, lastSave,
                   file, backups, routines, now, ret, lastIssued, closedTasks,
                   mu>>

\* f.mu.Lock() of Close returns
CloseLock(p) ==
    /\ callers[p].pc = "clock"
    /\ CanLock
    /\ mu' = p
    /\ Goto(p, "cbody", callers[p].task, ErrNil)
    /\ UNCHANGED <<readers, diskFails, kind, tasks, maxID, isActive, lastSave,
                   file, backups, routines, now, ret, lastIssued, closedTasks>>

\* Close under the lock: the test of isActive, f.save() and
\* f.isActive = false
CloseBody(p) ==
    /\ callers[p].pc = "cbody"
    /\ IF ~isActive
       THEN /\ Goto(p, "cunlock", callers[p].task, ErrAlreadyClosed)
            /\ UNCHANGED <<isActive, lastSave, file, closedTasks>>
       ELSE \E ioOk \in WriteOutcomes :
              LET s == saveOnClose(tasks, maxID, ioOk, now)
              IN /\ file' = s.file
                 /\ lastSave' = s.lastSave
                 /\ Goto(p, "cunlock", callers[p].task, s.err)
                 /\ IF s.err # ErrNil
                    THEN UNCHANGED <<isActive, closedTasks>>
                    ELSE /\ isActive' = FALSE
                         /\ closedTasks' =
                              [set |-> TRUE, tasks |-> tasks,
                               elapsed |-> Since(lastSave, now)]
    /\ UNCHANGED <<readers, diskFails, kind, tasks, maxID, backups, routines,
                   now, ret, lastIssued, mu>>

\* the deferred f.mu.Unlock() of Close and the return
CloseUnlock(p) ==
    /\ callers[p].pc = "cunlock"
    /\ mu' = 0
    /\ Return(p, "Close", callers[p].err)
    /\ UNCHANGED <<readers, diskFails, kind, tasks, maxID, isActive, lastSave,
                   file, backups, routines, now, lastIssued, closedTasks>>

-----------------------------------------------------------------------------
(* The calls the model makes *)

\* a valid task as a caller builds it
TaskA == [ZeroTask EXCEPT !.Name = "a"]

\* a task of a document written elsewhere
ForeignTask(id) == [ZeroTask EXCEPT !.ID = id, !.Name = "b", !.Tags = <<"">>]

\* a document with the tasks of list
DocOf(list, mx) ==
    MarshalFileData([Metadata |-> [Version |-> "1.0", LastUpdated |-> ZeroTime,
                                   TaskCount |-> Len(list), MaxID |-> mx],
                     Tasks |-> list])

CsvHeader ==
    <<"ID", "Name", "Description", "Status", "Priority", "Category",
      "Created At", "Due Date", "Completed At", "Tags">>

CsvRecord(idCell, name) ==
    <<idCell, name, "", "Not Started", "Low", "", FormatRFC3339(ZeroTime),
      FormatRFC3339(ZeroTime), FormatRFC3339(ZeroTime), "">>

\* the bytes Export returns for "json": the document of prepareFileData
exportToJSON(ts, mx, t) == MarshalFileData(prepareFileData(ts, mx, t))

\* FileStore.exportToCSV: the header and one record per task.  The code
\* writes the records in the order a range over the map visits them; they
\* are kept here in ascending ID order
exportToCSV(ts) ==
    LET order == KeysAscending(DOMAIN ts)
    IN <<CsvHeader>> \o
       [i \in 1..Len(order) |->
          LET task == ts[order[i]]
          IN <<Itoa(task.ID), task.Name, task.Description,
               StatusString(task.Status), PriorityString(task.Priority),
               task.Category, FormatRFC3339(task.CreatedAt),
               FormatRFC3339(task.DueDate), FormatRFC3339(task.CompletedAt),
               JoinTags(task.Tags)>>]

\* Import of list into a store that NewFileStore and Connect on a new file
\* have just made: an empty map and a zero counter
importIntoFresh(list) == LoadLoop(list, 1, <<>>, 0)

\* a snapshot an earlier process left behind under the id 0: it holds the
\* highest ID and its max_id is stale
SeedBackups == [b \in {0} |-> DocOf(<<ForeignTask(MaxID)>>, 0)]

\* the state a constructor leaves: NewMemoryStore, NewFileStore
Init ==
    /\ kind \in {"memory", "file"}
    /\ tasks = <<>>
    /\ maxID = 0
    /\ isActive = (kind = "memory")
    /\ lastSave = ZeroTime
    /\ file = NoFile
    /\ backups = IF kind = "file" THEN SeedBackups ELSE <<>>
    /\ routines = <<>>
    /\ now = 1
    /\ ret = Call("New", 0, <<>>, 0, ErrNil)
    /\ lastIssued = 0
    /\ closedTasks = NoSnapshot
    /\ mu = 0
    /\ callers = <<>>
    /\ readers = {}
    /\ diskFails = TRUE

-----------------------------------------------------------------------------
(* Spec: one caller and the store objects of one file, with every call that
   changes the store; the inputs are the fewest that reach each outcome *)

\* tasks a caller passes to CreateTask: a valid one, one without a name
CreateInputs == {TaskA, ZeroTask}

\* the task a caller passes to UpdateTask
UpdateInputs == {ForeignTask(1)}

\* IDs a caller passes to DeleteTask: the lowest and the highest
DeleteInputs == {1, MaxID}

\* lists a caller passes to CreateTasks: all valid, the second one invalid
CreateBatches == {<<TaskA, TaskA>>, <<TaskA, ZeroTask>>}

\* the list a caller passes to DeleteTasks: an ID and one that never exists
DeleteBatches == {<<1, MaxID + 1>>}

\* json inputs of Import: a task with the highest ID, the same ID twice
JsonInputs ==
    {DocOf(<<ForeignTask(MaxID)>>, 0),
     DocOf(<<[ForeignTask(1) EXCEPT !.Name = "a"], ForeignTask(1)>>, 1)}

\* csv inputs of Import: no row at all, a record that is too short, a record
\* with the highest ID
CsvInputs ==
    {<<>>, <<CsvHeader, <<"1", "short">> >>,
     <<CsvHeader, CsvRecord(Itoa(MaxID), "b")>>}

Next ==
    \/ (isActive \/ Len(routines) < MaxRoutines) /\ Connect
    \/ Close
    \/ \E task \in CreateInputs : maxID < MaxID /\ CreateTask(task)
    \/ \E task \in UpdateInputs : UpdateTask(task)
    \/ \E id \in DeleteInputs : DeleteTask(id)
    \/ \E list \in CreateBatches : maxID + Len(list) <= MaxID /\ CreateTasks(list)
    \/ \E ids \in DeleteBatches : DeleteTasks(ids)
    \/ \E data \in JsonInputs : Import(data, "json")
    \/ \E data \in CsvInputs : Import(data, "csv")
    \/ Import(<<>>, "xml")
    \/ \E id \in {0, 1} : Restore(id)
    \/ NewFileStore

Spec == Init /\ [][Next]_vars

-----------------------------------------------------------------------------
(* SpecCrud: one caller of the single-record and batch calls of one store,
   with every kind of argument; the clock stands still *)

\* the IDs a caller passes: every ID the counter reaches and one it never does
CrudIDs == 1..(MaxCreates + 1)

\* tasks a caller passes to UpdateTask: valid ones and ones without a name,
\* for a low ID and for the ID that never exists
CrudUpdateInputs ==
    {[ZeroTask EXCEPT !.ID = id, !.Name = n] :
        id \in {1, MaxCreates + 1}, n \in {"b", ""}}

\* lists a caller passes to DeleteTasks: two IDs, an ID twice, an ID that
\* never exists after one that may
CrudDeleteBatches == {<<1, 2>>, <<1, 1>>, <<1, MaxCreates + 1>>}

NextCrud ==
    \/ Connect
    \/ \E task \in CreateInputs : maxID < MaxCreates /\ CreateTask(task)
    \/ \E id \in CrudIDs : GetTask(id)
    \/ \E task \in CrudUpdateInputs : UpdateTask(task)
    \/ \E id \in CrudIDs : DeleteTask(id)
    \/ \E list \in CreateBatches :
          maxID + Len(list) <= MaxCreates /\ CreateTasks(list)
    \/ \E ids \in CrudDeleteBatches : DeleteTasks(ids)

SpecCrud == Init /\ [][NextCrud]_vars

-----------------------------------------------------------------------------
(* SpecInt: one caller of a FileStore that also imports and restores tasks
   whose IDs are at the ends of the range of int *)

\* json inputs of Import: tasks with the highest and the lowest int as ID
IntJsonInputs == {DocOf(<<ForeignTask(MaxInt), ForeignTask(MinInt)>>, 0)}

\* csv inputs of Import: a record with the highest int as ID
IntCsvInputs == {<<CsvHeader, CsvRecord(Itoa(MaxInt), "b")>>}

\* the counter is driven by counting up to MaxID only; a counter that an
\* imported ID raised to MaxInt is one step from wrapping
MayCount(n) == maxID \in 0..(MaxID - n) \/ (n = 1 /\ maxID = MaxInt)

InitInt == Init /\ kind = "file"

NextInt ==
    \/ FileConnect
    \/ \E task \in CreateInputs : MayCount(1) /\ CreateTask(task)
    \/ \E task \in UpdateInputs : UpdateTask(task)
    \/ \E id \in DeleteInputs : DeleteTask(id)
    \/ \E list \in CreateBatches : MayCount(Len(list)) /\ CreateTasks(list)
    \/ \E ids \in DeleteBatches : DeleteTasks(ids)
    \/ \E data \in IntJsonInputs : Import(data, "json")
    \/ \E data \in IntCsvInputs : Import(data, "csv")
    \/ Restore(0)

SpecInt == InitInt /\ [][NextInt]_vars

-----------------------------------------------------------------------------
(* C3: the counter and the IDs in the store *)

\* C3 as claimed: in every reachable state of a FileStore the ID counter is
\* greater than or equal to every ID in the record map
C3_CounterCoversIDs ==
    kind = "file" => \A id \in DOMAIN tasks : id <= maxID

-----------------------------------------------------------------------------
(* SpecApi: one caller of every storage operation of one store, on a
   Connected and on a Disconnected store *)

\* the formats a caller passes to Export
ExportFormats == {"json", "csv", "xml"}

NextApi ==
    \/ (isActive \/ Len(routines) < MaxRoutines) /\ Connect
    \/ Close
    \/ maxID < MaxID /\ CreateTask(TaskA)
    \/ GetTask(1)
    \/ \E task \in UpdateInputs : UpdateTask(task)
    \/ DeleteTask(1)
    \/ ListTasks
    \/ SearchTasks
    \/ GetTaskSummary
    \/ maxID + 2 <= MaxID /\ CreateTasks(<<TaskA, TaskA>>)
    \/ \E ids \in DeleteBatches : DeleteTasks(ids)
    \/ \E format \in ExportFormats : Export(format)
    \/ Import(DocOf(<<ForeignTask(MaxID)>>, 0), "json")
    \/ Cardinality(DOMAIN backups) <= MaxBackups /\ Backup
    \/ \E id \in {0, 1, 2} : Restore(id)

SpecApi == Init /\ [][NextApi]_vars

-----------------------------------------------------------------------------
(* C7: calls on a Disconnected store *)

\* the storage operations: every call but Connect and Close
StorageOps ==
    {"CreateTask", "GetTask", "UpdateTask", "DeleteTask", "ListTasks",
     "SearchTasks", "GetTaskSummary", "CreateTasks", "DeleteTasks", "Export",
     "Import", "Backup", "Restore"}

\* C7: a storage operation called while the store is Disconnected fails with
\* the connection error and changes neither the records, the counter, the
\* backing file nor the snapshots
C7_Disconnected ==
    [][~isActive /\ ret'.op \in StorageOps =>
           /\ ret'.err = ErrStorageConnection
           /\ tasks' = tasks /\ maxID' = maxID
           /\ file' = file /\ backups' = backups]_vars

\* a closed FileStore with records in memory and on file refused an Import
C7_Witness ==
    /\ ~isActive /\ ret.op = "Import" /\ ret.err = ErrStorageConnection
    /\ DOMAIN tasks # {} /\ file.exists

-----------------------------------------------------------------------------
(* SpecTime: one caller of the mutating calls of a connected FileStore
   while the clock runs minute by minute, with the auto-save goroutine *)

\* the mutating calls that end in saveIfNeeded
Mutators ==
    {"CreateTask", "UpdateTask", "DeleteTask", "CreateTasks", "DeleteTasks"}

InitTime == Init /\ kind = "file"

NextTime ==
    \/ (isActive \/ Len(routines) < MaxRoutines) /\ FileConnect
    \/ maxID < MaxTimedID /\ CreateTask(TaskA)
    \/ \E task \in UpdateInputs : UpdateTask(task)
    \/ DeleteTask(1)
    \/ maxID < MaxTimedID /\ CreateTasks(<<TaskA>>)
    \/ DeleteTasks(<<1>>)
    \/ \E i \in 1..MaxRoutines : AutoSaveTick(i)
    \/ now < MaxTime /\ Tick(1)

SpecTime == InitTime /\ [][NextTime]_vars

-----------------------------------------------------------------------------
(* SpecClose: one caller that mutates, closes and reopens a FileStore, in the
   same process and from a new one, while the clock runs in steps of the
   auto-save interval *)

NextClose ==
    \/ (isActive \/ Len(routines) < MaxRoutines) /\ FileConnect
    \/ FileClose
    \/ maxID < MaxID /\ CreateTask(TaskA)
    \/ \E task \in UpdateInputs : UpdateTask(task)
    \/ \E id \in DeleteInputs : DeleteTask(id)
    \/ \E i \in 1..MaxRoutines : AutoSaveTick(i)
    \/ now + AutoSaveTime <= MaxTime /\ Tick(AutoSaveTime)
    \/ NewFileStore

SpecClose == InitTime /\ [][NextClose]_vars

-----------------------------------------------------------------------------
(* SpecAuto: one caller of a FileStore on a disk whose writes succeed, with
   the auto-save goroutines firing on time.  The clock runs on and the
   goroutines get their turn: weak fairness of both. *)

\* a new FileStore on a disk that does not fail
InitAuto ==
    /\ kind = "file"
    /\ tasks = <<>>
    /\ maxID = 0
    /\ isActive = FALSE
    /\ lastSave = ZeroTime
    /\ file = NoFile
    /\ backups = <<>>
    /\ routines = <<>>
    /\ now = 1
    /\ ret = Call("New", 0, <<>>, 0, ErrNil)
    /\ lastIssued = 0
    /\ closedTasks = NoSnapshot
    /\ mu = 0
    /\ callers = <<>>
    /\ readers = {}
    /\ diskFails = FALSE

\* the clock of SpecAuto moves a minute
AutoClock == now < MaxAutoTime /\ TickDue(1)

\* a goroutine of SpecAuto takes its turn
AutoTurn == \E i \in 1..MaxRoutines : now <= MaxAutoTime /\ AutoSaveTick(i)

NextAuto ==
    \/ (isActive \/ Len(routines) < MaxRoutines) /\ FileConnect
    \/ FileClose
    \/ maxID < MaxTimedID /\ CreateTask(TaskA)
    \/ DeleteTask(1)
    \/ AutoTurn
    \/ AutoClock

SpecAuto ==
    InitAuto /\ [][NextAuto]_vars /\ WF_vars(AutoClock) /\ WF_vars(AutoTurn)

\* C11: while a FileStore is connected and writes succeed, a tick of the
\* auto-save is never more than one interval away, a turn of the auto-save
\* goroutine leaves the file holding the record map of the memory, and so an
\* unsaved mutation reaches the file in the end, if no call follows it too
C11_FileCatchesUp ==
    /\ [](isActive => \E i \in DOMAIN routines :
                         routines[i] - now \in 0..AutoSaveTime)
    /\ [][(isActive /\ \E i \in DOMAIN routines : AutoSaveTick(i))
            => FileReflects']_vars
    /\ (isActive /\ ~FileReflects /\ now + AutoSaveTime <= MaxAutoTime)
          ~> (FileReflects \/ ~isActive)

\* an auto-save turn has just written a mutation that saveIfNeeded had left
\* unsaved
C11_Witness ==
    /\ ret.op = "autoSaveRoutine" /\ ret.out = 1
    /\ isActive /\ tasks # <<>> /\ FileReflects /\ lastSave = now

-----------------------------------------------------------------------------
(* SpecConc: NumCallers callers run CreateTask on one connected MemoryStore
   or FileStore, or AddTask on one TaskStore, at the same time *)

\* a connected store, as Connect leaves it at time 1 on a new file (lastSave
\* is now) or on a file that was there (lastSave is the zero time), or a new
\* TaskStore; every caller is between two calls
InitConc ==
    /\ kind \in {"memory", "file", "taskstore"}
    /\ tasks = <<>>
    /\ maxID = IF kind = "taskstore" THEN 1 ELSE 0
    /\ isActive = TRUE
    /\ now = 1
    /\ lastSave \in IF kind = "file" THEN {ZeroTime, now} ELSE {ZeroTime}
    /\ file = IF kind = "file"
              THEN [exists |-> TRUE, doc |-> MarshalFileData(InitialData(now))]
              ELSE NoFile
    /\ backups = <<>>
    /\ routines = IF kind = "file" THEN <<now + AutoSaveTime>> ELSE <<>>
    /\ ret = Call("New", 0, <<>>, 0, ErrNil)
    /\ lastIssued = 0
    /\ closedTasks = NoSnapshot
    /\ mu = 0
    /\ callers = [p \in 1..NumCallers |-> IdleCaller]
    /\ readers = {}
    /\ diskFails = TRUE

NextConc ==
    \E p \in 1..NumCallers :
        \/ CreateBegin(p)
        \/ CreateLock(p)
        \/ CreateInc(p)
        \/ CreateAssign(p)
        \/ CreateInsert(p)
        \/ CreateSave(p)
        \/ CreateUnlock(p)
        \/ AddLock(p)
        \/ AddBuild(p)
        \/ AddInsert(p)
        \/ AddInc(p)
        \/ AddUnlock(p)

SpecConc == InitConc /\ [][NextConc]_vars

-----------------------------------------------------------------------------
(* C2: concurrent Create *)

\* C2: in every interleaving of concurrent CreateTask (or AddTask) calls, no
\* two successful calls received the same ID, and the record of every
\* successful call is in the store under its ID, as its caller made it
C2_DistinctIDs ==
    \A p, q \in DOMAIN callers :
        \A i \in DOMAIN callers[p].got :
            /\ callers[p].got[i] \in DOMAIN tasks
            /\ tasks[callers[p].got[i]].Name = NameOf(p)
            /\ \A j \in DOMAIN callers[q].got :
                   (p # q \/ i # j) => callers[p].got[i] # callers[q].got[j]

\* every caller finished all its calls, and the calls of two callers
\* alternated: one got the first and the last ID handed out
C2_Witness ==
    /\ callers # <<>>
    /\ \A p \in DOMAIN callers :
          /\ callers[p].pc = "idle" /\ callers[p].calls = MaxCalls
          /\ Len(callers[p].got) = MaxCalls
    /\ \E p, q \in DOMAIN callers :
          /\ callers[p].got[1] < callers[q].got[1]
          /\ callers[q].got[MaxCalls] < callers[p].got[MaxCalls]

-----------------------------------------------------------------------------
(* C1: the IDs CreateTask hands out *)

\* C1: for any sequence of Create and Delete calls on one store, every
\* successful CreateTask hands out an ID greater than the ID of every earlier
\* successful CreateTask (so none is handed out twice), and the ID is not in
\* the store at that moment, also when the highest ID was deleted before
C1_IdsIncrease ==
    [][\A task \in CreateInputs :
          CreateTask(task) /\ ret'.err = ErrNil =>
              /\ ret'.out > lastIssued
              /\ ret'.out \notin DOMAIN tasks
              /\ ret'.out \in DOMAIN tasks']_vars

\* three tasks were created, the middle one deleted, and the fourth
\* CreateTask received the ID 4
C1_Witness ==
    /\ ret.op = "CreateTask" /\ ret.err = ErrNil /\ ret.out = 4
    /\ DOMAIN tasks = {1, 3, 4}

-----------------------------------------------------------------------------
(* C4: DeleteTasks *)

\* C4 as claimed: a DeleteTasks whose list has an ID that is absent from the
\* store, or the same ID twice, fails with the not-found error and removes
\* no record
C4_AllOrNothing ==
    [][\A ids \in CrudDeleteBatches :
          /\ DeleteTasks(ids)
          /\ isActive
          /\ \/ \E i \in DOMAIN ids : ids[i] \notin DOMAIN tasks
             \/ \E i, j \in DOMAIN ids : i # j /\ ids[i] = ids[j]
          => ret'.err = ErrTaskNotFound /\ tasks' = tasks]_vars

-----------------------------------------------------------------------------
(* C5: UpdateTask of an ID that is not in the store *)

\* C5 as claimed: on a connected store, UpdateTask of a task of any content
\* whose ID is not in the store fails with the not-found error and leaves the
\* records and the counter unchanged
C5_UpdateAbsent ==
    [][\A task \in CrudUpdateInputs :
          UpdateTask(task) /\ isActive /\ task.ID \notin DOMAIN tasks =>
              ret'.err = ErrTaskNotFound /\ tasks' = tasks /\ maxID' = maxID]_vars

-----------------------------------------------------------------------------
(* C6: DeleteTask *)

\* C6: on a connected store, DeleteTask of a present ID removes that record
\* and leaves every other record and the counter unchanged; DeleteTask of
\* an absent ID fails with the not-found error and changes neither the
\* records, the counter nor the file
C6_DeleteOne ==
    [][\A id \in CrudIDs :
          DeleteTask(id) /\ isActive =>
              IF id \in DOMAIN tasks
              THEN /\ DOMAIN tasks' = DOMAIN tasks \ {id}
                   /\ \A k \in DOMAIN tasks' : tasks'[k] = tasks[k]
                   /\ maxID' = maxID
              ELSE /\ ret'.err = ErrTaskNotFound
                   /\ tasks' = tasks /\ maxID' = maxID /\ file' = file]_vars

\* a second DeleteTask of the same ID was refused, other records are there
C6_Witness ==
    /\ ret.op = "DeleteTask" /\ ret.err = ErrTaskNotFound
    /\ ret.id \in 1..maxID /\ ret.id \notin DOMAIN tasks
    /\ DOMAIN tasks # {}

-----------------------------------------------------------------------------
(* C9: Close saves whatever lastSave is *)

\* C9: a successful FileStore.Close leaves a file that holds every record of
\* the map, however recent the last save was, and the next successful
\* Connect on that file, by the same store object or a new one, yields the
\* record map as it was at the Close
C9_CloseThenConnect ==
    [][/\ FileClose /\ isActive /\ ret'.err = ErrNil =>
              \A mx \in {0, maxID} : loadFromFile(file', mx).tasks = tasks
       /\ FileConnect /\ ~isActive /\ closedTasks.set /\ ret'.err = ErrNil =>
              tasks' = closedTasks.tasks]_vars

\* a FileStore with records was closed less than the auto-save interval
\* after its last save
C9_Witness ==
    /\ ~isActive /\ ret.op = "Close" /\ ret.err = ErrNil
    /\ closedTasks.set /\ DOMAIN closedTasks.tasks # {}
    /\ closedTasks.elapsed < AutoSaveTime

-----------------------------------------------------------------------------
(* C10: saveIfNeeded *)

\* C10 as claimed: a mutating FileStore call writes the backing file only if
\* the time since the last save exceeds the auto-save interval, leaves the
\* file unchanged when less time has passed, and every write sets the
\* last-save time
C10_OnlyIfExceeds ==
    [][/\ ret'.op \in Mutators /\ file' # file =>
              Since(lastSave, now) > AutoSaveTime
       /\ ret'.op \in Mutators /\ Since(lastSave, now) < AutoSaveTime =>
              file' = file /\ lastSave' = lastSave
       /\ file' # file => lastSave' = now]_vars

\* C10 as amended: a mutating FileStore call writes the backing file only if
\* the time since the last save is at least the auto-save interval, leaves
\* the file unchanged when less time has passed, and every write sets the
\* last-save time
C10_OnlyIfAtLeast ==
    [][/\ ret'.op \in Mutators /\ file' # file =>
              Since(lastSave, now) >= AutoSaveTime
       /\ ret'.op \in Mutators /\ Since(lastSave, now) < AutoSaveTime =>
              file' = file /\ lastSave' = lastSave
       /\ file' # file => lastSave' = now]_vars

\* a mutating call wrote the file exactly one auto-save interval after the
\* save of Connect, before the goroutine's first tick
C10_Witness ==
    /\ ret.op \in Mutators /\ ret.err = ErrNil
    /\ now = 1 + AutoSaveTime /\ lastSave = now
    /\ file.doc.metadata.last_updated = now
    /\ routines = <<now>>

-----------------------------------------------------------------------------
(* C8: the connection lifecycle *)

\* what a Connect step may do: from Connected it fails and leaves the
\* connection state, the records and the counter alone; from Disconnected it
\* either succeeds and the store is Connected, or fails and the store stays
\* Disconnected
ConnectOutcome ==
    IF isActive
    THEN /\ ret'.err = ErrAlreadyConnected
         /\ isActive' /\ tasks' = tasks /\ maxID' = maxID
    ELSE \/ ret'.err = ErrNil /\ isActive'
         \/ ret'.err # ErrNil /\ ~isActive'

\* what a Close step may do, likewise
CloseOutcome ==
    IF ~isActive
    THEN /\ ret'.err = ErrAlreadyClosed
         /\ ~isActive' /\ tasks' = tasks /\ maxID' = maxID
    ELSE \/ ret'.err = ErrNil /\ ~isActive'
         \/ ret'.err # ErrNil /\ isActive'

\* C8: Connect succeeds only from Disconnected and leads to Connected, Close
\* succeeds only from Connected and leads to Disconnected; Connect on a
\* Connected store and Close on a Disconnected store fail and leave the
\* connection state and the records unchanged; and no other call changes the
\* connection state
C8_Lifecycle ==
    [][/\ Connect => ConnectOutcome
       /\ Close => CloseOutcome
       /\ isActive' # isActive => Connect \/ Close]_vars

\* a Connect was refused on a Connected store that holds records
C8_Witness ==
    /\ ret.op = "Connect" /\ ret.err = ErrAlreadyConnected
    /\ isActive /\ DOMAIN tasks # {}

-----------------------------------------------------------------------------
(* SpecLock: NumCallers callers run CreateTask, GetTask, UpdateTask and
   MarkTaskComplete on one FileStore at the same time, beside the auto-save
   goroutine.  Every caller and the goroutine get their turn: weak fairness
   of the steps of each. *)

\* a caller of SpecLock between two calls
IdleLockCaller ==
    [pc |-> "idle", op |-> "", task |-> ZeroTask, err |-> ErrNil, calls |-> 0,
     got |-> <<>>]

\* a FileStore that is connected, or closed, at time 1
InitLock ==
    /\ kind = "file"
    /\ tasks = <<>>
    /\ maxID = 0
    /\ isActive \in BOOLEAN
    /\ now = 1
    /\ lastSave \in {ZeroTime, now}
    /\ file = [exists |-> TRUE, doc |-> MarshalFileData(InitialData(now))]
    /\ backups = <<>>
    /\ routines = <<now + AutoSaveTime>>
    /\ ret = Call("New", 0, <<>>, 0, ErrNil)
    /\ lastIssued = 0
    /\ closedTasks = NoSnapshot
    /\ mu = 0
    /\ callers = [p \in 1..(NumCallers + 1) |-> IdleLockCaller]
    /\ readers = {}
    /\ diskFails = TRUE

\* the steps of caller p
CallerStep(p) ==
    \/ MayCall /\ CreateBegin(p)
    \/ CreateLock(p)
    \/ CreateInc(p)
    \/ CreateAssign(p)
    \/ CreateInsert(p)
    \/ CreateSave(p)
    \/ CreateUnlock(p)
    \/ \E op \in {"GetTask", "MarkTaskComplete"} : GetBegin(p, op)
    \/ GetRLock(p)
    \/ GetRead(p)
    \/ GetRUnlock(p)
    \/ MarkSet(p)
    \/ UpdateBegin(p)
    \/ UpdateLock(p)
    \/ UpdateWrite(p)
    \/ UpdateUnlock(p)

\* the steps of the auto-save goroutine
SaverStep == AutoCheck \/ AutoLock \/ AutoSave \/ AutoUnlock

NextLock == (\E p \in 1..NumCallers : CallerStep(p)) \/ SaverStep

SpecLock ==
    /\ InitLock /\ [][NextLock]_vars
    /\ \A p \in 1..NumCallers : WF_vars(CallerStep(p))
    /\ WF_vars(SaverStep)

-----------------------------------------------------------------------------
\* the highest ID among the records of ts, 0 when there are none
HighestID(ts) ==
    IF DOMAIN ts = {} THEN 0
    ELSE CHOOSE m \in DOMAIN ts : \A id \in DOMAIN ts : id <= m

\* C12: after every successful Connect the ID counter equals the highest ID
\* among the loaded tasks, 0 when none was loaded, whatever the counter was
\* before
C12_CounterRederived ==
    [][(FileConnect /\ ret'.err = ErrNil) => maxID' = HighestID(tasks')]_vars

\* C13: after a successful Restore the record map holds exactly the tasks of
\* the snapshot, the ID counter equals the highest ID of the snapshot, and
\* the primary file holds that map and that counter
C13_RestoreReplaces ==
    [][\A b \in DOMAIN backups :
         (Restore(b) /\ ret'.err = ErrNil) =>
            LET list == UnmarshalFileData(backups[b]).Tasks
            IN /\ DOMAIN tasks' = {list[i].ID : i \in DOMAIN list}
               /\ \A i \in DOMAIN list : tasks'[list[i].ID] = list[i]
               /\ maxID' = HighestID(tasks')
               /\ FileReflects'
               /\ file'.doc.metadata.max_id = maxID']_vars

\* C14: Backup leaves the record map, the ID counter, the last-save time and
\* the primary file as they were, and the snapshot a successful Backup writes
\* holds exactly the records of the map
C14_BackupFrame ==
    [][Backup =>
         /\ tasks' = tasks /\ maxID' = maxID
         /\ lastSave' = lastSave /\ file' = file
         /\ (checkActive = ErrNil /\ ret'.err = ErrNil) =>
               /\ now \in DOMAIN backups'
               /\ LET list == UnmarshalFileData(backups'[now]).Tasks
                  IN /\ {list[i].ID : i \in DOMAIN list} = DOMAIN tasks
                     /\ \A i \in DOMAIN list : list[i] = tasks[list[i].ID]
                     /\ Len(list) = Cardinality(DOMAIN tasks)]_vars

\* a Backup of a store that holds a record has succeeded
C14_Witness ==
    /\ ret.op = "Backup" /\ ret.err = ErrNil
    /\ tasks # <<>> /\ now \in DOMAIN backups
    /\ Len(backups[now].tasks) = Cardinality(DOMAIN tasks)

-----------------------------------------------------------------------------
\* the tasks an Import of data reads, in their order
ImportedTasks(data, format) ==
    IF format = "json" THEN UnmarshalFileData(data).Tasks
    ELSE RecordTasks(Tail(data))

\* what C15 says of the records that were there and of the counter: a record
\* whose ID is not imported is unchanged, the counter covers the imported IDs
\* and is not lowered
ImportKeeps(list) ==
    /\ \A id \in DOMAIN tasks :
          (\A i \in DOMAIN list : list[i].ID # id) =>
             id \in DOMAIN tasks' /\ tasks'[id] = tasks[id]
    /\ \A i \in DOMAIN list : maxID' >= list[i].ID
    /\ maxID' >= maxID

\* every task of list is in the map under its own ID after the step
ImportStoresAll(list) ==
    \A i \in DOMAIN list :
       list[i].ID \in DOMAIN tasks' /\ tasks'[list[i].ID] = list[i]

\* of the tasks of list that share an ID, the last is in the map under it
ImportStoresLast(list) ==
    \A i \in DOMAIN list :
       (\A j \in DOMAIN list : j > i => list[j].ID # list[i].ID) =>
          list[i].ID \in DOMAIN tasks' /\ tasks'[list[i].ID] = list[i]

\* C15 as stated: after a successful Import every imported task is stored
\* under its own ID, the other records are unchanged, and the counter covers
\* the imported IDs and is not lowered
C15_ImportMerges ==
    [][/\ \A data \in JsonInputs :
            (Import(data, "json") /\ ret'.err = ErrNil) =>
               /\ ImportStoresAll(ImportedTasks(data, "json"))
               /\ ImportKeeps(ImportedTasks(data, "json"))
       /\ \A data \in CsvInputs :
            (Import(data, "csv") /\ ret'.err = ErrNil) =>
               /\ ImportStoresAll(ImportedTasks(data, "csv"))
               /\ ImportKeeps(ImportedTasks(data, "csv"))]_vars

\* C15 amended: of the imported tasks that share an ID, the last one is the
\* one stored under it
C15_ImportMergesLastWins ==
    [][/\ \A data \in JsonInputs :
            (Import(data, "json") /\ ret'.err = ErrNil) =>
               /\ ImportStoresLast(ImportedTasks(data, "json"))
               /\ ImportKeeps(ImportedTasks(data, "json"))
       /\ \A data \in CsvInputs :
            (Import(data, "csv") /\ ret'.err = ErrNil) =>
               /\ ImportStoresLast(ImportedTasks(data, "csv"))
               /\ ImportKeeps(ImportedTasks(data, "csv"))]_vars

\* an Import has succeeded on a store that keeps a record it created
C15_Witness ==
    /\ ret.op = "Import" /\ ret.err = ErrNil
    /\ \E id \in DOMAIN tasks : tasks[id].Name = "b"
    /\ \E id \in DOMAIN tasks : tasks[id].CreatedAt # ZeroTime

-----------------------------------------------------------------------------
(* SpecPort: one caller of a connected FileStore whose tasks carry every
   field, with Export and with Import of what Export returned *)

\* tasks a caller passes to CreateTask and UpdateTask: a bare one, one with
\* every field set, one with a single tag
PortTasks ==
    {TaskA,
     [TaskA EXCEPT !.ID = 1, !.Description = "d", !.Status = Completed,
                   !.Priority = High, !.Category = "c", !.Tags = <<"x", "y">>,
                   !.DueDate = MaxTime, !.CompletedAt = 1, !.Progress = 100],
     [TaskA EXCEPT !.Status = InProgress, !.Tags = <<"x">>, !.Progress = 50]}

NextPort ==
    \/ (isActive \/ Len(routines) < MaxRoutines) /\ FileConnect
    \/ \E task \in PortTasks : maxID < MaxID /\ CreateTask(task)
    \/ \E task \in PortTasks : UpdateTask(task)
    \/ DeleteTask(1)
    \/ \E format \in ExportFormats : Export(format)
    \/ Import(exportToJSON(tasks, maxID, now), "json")
    \/ Import(exportToCSV(tasks), "csv")

SpecPort == InitTime /\ [][NextPort]_vars

C17_CsvRoundTrip ==
    (kind = "file" /\ isActive) =>
       LET r == importIntoFresh(ImportedTasks(exportToCSV(tasks), "csv")).tasks
       IN /\ DOMAIN r = DOMAIN tasks
          /\ \A id \in DOMAIN tasks :
                /\ r[id].ID = tasks[id].ID
                /\ r[id].Name = tasks[id].Name
                /\ r[id].Status = tasks[id].Status
                /\ r[id].Priority = tasks[id].Priority
                /\ r[id].Category = tasks[id].Category
                /\ r[id].Tags = tasks[id].Tags
                /\ r[id].CreatedAt = tasks[id].CreatedAt
                /\ r[id].DueDate = tasks[id].DueDate
                /\ r[id].CompletedAt = tasks[id].CompletedAt

-----------------------------------------------------------------------------
\* where a caller stands between Lock and Unlock, and between RLock and
\* RUnlock
WriteSections ==
    {"inc", "assign", "insert", "save", "unlock", "uwrite", "uunlock",
     "asave", "aunlock"}
ReadSections == {"read", "runlock"}

\* the callers inside a critical section for writing, for reading
Writing == {p \in DOMAIN callers : callers[p].pc \in WriteSections}
Reading == {p \in DOMAIN callers : callers[p].pc \in ReadSections}

-----------------------------------------------------------------------------
(* SpecValid: one caller of the calls that put records into a FileStore,
   with valid and invalid tasks as arguments and in the imported data *)

\* tasks without a name, with a progress beyond 100
Nameless(id) == [ForeignTask(id) EXCEPT !.Name = ""]
Overdone(id) == [ForeignTask(id) EXCEPT !.Progress = 101]

\* json inputs of Import: a valid task, a nameless one, an overdone one
ValidJsonInputs ==
    {DocOf(<<ForeignTask(MaxID)>>, 0), DocOf(<<Nameless(1)>>, 1),
     DocOf(<<Overdone(1)>>, 1)}

\* csv inputs of Import: a record with a name, one without
ValidCsvInputs ==
    {<<CsvHeader, CsvRecord(Itoa(MaxID), "b")>>, <<CsvHeader, CsvRecord("1", "")>>}

NextValid ==
    \/ FileConnect
    \/ \E task \in CreateInputs \cup {Overdone(0)} : maxID < MaxID /\ CreateTask(task)
    \/ \E task \in UpdateInputs \cup {Nameless(1), Overdone(1)} : UpdateTask(task)
    \/ \E list \in CreateBatches : maxID + Len(list) <= MaxID /\ CreateTasks(list)
    \/ \E data \in ValidJsonInputs : Import(data, "json")
    \/ \E data \in ValidCsvInputs : Import(data, "csv")
    \/ Restore(0)

SpecValid == InitTime /\ [][NextValid]_vars

\* C20: every stored record has a name and a progress from 0 to 100
C20_RecordsValid ==
    \A id \in DOMAIN tasks :
       tasks[id].Name # "" /\ tasks[id].Progress \in 0..100


-----------------------------------------------------------------------------
(* SpecEdit: one caller that holds a *models.Task, changes it with the
   methods of Task and with the assignments of CLI.updateTask, and passes it
   to a connected FileStore; the clock stands still.  A Task that was copied still shares the arrays
   of its slices with the Task it was copied from: the record of the map and
   the task of the caller share them after CreateTask, GetTask and UpdateTask,
   so a write into an element of such an array shows in both. *)

\* at most this many tags and this many subtasks are on a task
MaxTags == 2
MaxSubTasks == 2

\* the caller before it holds a task.  task is the Task its pointer refers
\* to, tagsArr the array behind task.Tags as far as it was written,
\* tagsShared and subsShared whether the record of the map under task.ID has
\* the array of task.Tags and of task.SubTasks behind its own slices
NoTaskHeld ==
    [has |-> FALSE, task |-> ZeroTask, tagsArr |-> <<>>,
     tagsShared |-> FALSE, subsShared |-> FALSE]

\* the caller of SpecEdit
Held == callers[1]

\* the caller holding task, the arrays of which the map shares
HoldShared(task) ==
    [has |-> TRUE, task |-> task,
     tagsArr |-> IF Held.has /\ Len(Held.tagsArr) >= Len(task.Tags)
                    /\ SubSeq(Held.tagsArr, 1, Len(task.Tags)) = task.Tags
                 THEN Held.tagsArr ELSE task.Tags,
     tagsShared |-> TRUE, subsShared |-> TRUE]

\* the map as a reader finds it once the caller c has written into its arrays:
\* a slice of the record under c.task.ID shows the elements of a shared array
\* up to its own length
StoredView(ts, c) ==
    IF ~Exists(ts, c.task.ID) THEN ts
    ELSE [ts EXCEPT
            ![c.task.ID].Tags =
                IF c.tagsShared THEN SubSeq(c.tagsArr, 1, Len(@)) ELSE @,
            ![c.task.ID].SubTasks =
                IF c.subsShared THEN SubSeq(c.task.SubTasks, 1, Len(@)) ELSE @]

\* a step of the caller on its own task that leaves c and returns err
EditLocal(op, c, err) ==
    /\ callers' = <<c>>
    /\ tasks' = StoredView(tasks, c)
    /\ ret' = Call(op, c.task.ID, <<>>, 0, err)
    /\ UNCHANGED <<readers, diskFails, mu, kind, maxID, isActive, lastSave,
                   file, backups, routines, now, lastIssued, closedTasks>>

\* models.NewTask(name): a task with arrays of its own
EditNew(name) ==
    /\ callers' = <<[NoTaskHeld EXCEPT !.has = TRUE, !.task = NewTask(name, now)]>>
    /\ ret' = Call("NewTask", 0, <<>>, 0, ErrNil)
    /\ UNCHANGED <<readers, diskFails, mu, kind, tasks, maxID, isActive,
                   lastSave, file, backups, routines, now, lastIssued,
                   closedTasks>>

\* FileStore.CreateTask(task) with the task the caller built: the ID and the
\* timestamps are written through the pointer, the map keeps a copy
EditCreate ==
    /\ Held.has /\ ~Held.tagsShared /\ ~Held.subsShared
    /\ LET task == Held.task
       IN IF checkActive # ErrNil
          THEN /\ ret' = Call("CreateTask", task.ID, <<>>, task.ID, checkActive)
               /\ UNCHANGED <<tasks, maxID, lastSave, file, lastIssued, callers>>
          ELSE IF Validate(task, now) # ErrNil
          THEN /\ ret' = Call("CreateTask", task.ID, <<>>, task.ID,
                              ErrTaskValidation)
               /\ UNCHANGED <<tasks, maxID, lastSave, file, lastIssued, callers>>
          ELSE LET mx == NextID(tasks, maxID)
                   t2 == [task EXCEPT !.ID = mx, !.CreatedAt = now,
                                      !.UpdatedAt = now]
                   ts == MapPut(tasks, t2.ID, t2)
               IN \E ioOk \in WriteOutcomes :
                    LET s == Persist(ts, mx, ioOk)
                    IN /\ maxID' = mx
                       /\ tasks' = ts
                       /\ file' = s.file
                       /\ lastSave' = s.lastSave
                       /\ callers' = <<HoldShared(t2)>>
                       /\ ret' = Call("CreateTask", task.ID, <<>>, t2.ID, s.err)
                       /\ lastIssued' = IF s.err = ErrNil THEN t2.ID
                                        ELSE lastIssued
    /\ UNCHANGED <<readers, diskFails, mu, kind, isActive, backups, routines,
                   now, closedTasks>>

\* FileStore.GetTask(id): the caller receives a pointer to a copy of the record
EditGet(id) ==
    /\ IF checkActive # ErrNil
       THEN /\ ret' = Call("GetTask", id, <<>>, 0, checkActive)
            /\ UNCHANGED callers
       ELSE IF ~Exists(tasks, id)
       THEN /\ ret' = Call("GetTask", id, <<>>, 0, ErrTaskNotFound)
            /\ UNCHANGED callers
       ELSE /\ ret' = Call("GetTask", id, <<>>, id, ErrNil)
            /\ callers' = <<[has |-> TRUE, task |-> tasks[id],
                             tagsArr |-> tasks[id].Tags,
                             tagsShared |-> TRUE, subsShared |-> TRUE]>>
    /\ UNCHANGED <<readers, diskFails, mu, kind, tasks, maxID, isActive,
                   lastSave, file, backups, routines, now, lastIssued,
                   closedTasks>>

\* FileStore.UpdateTask(task) with the task the caller holds: the update time
\* is written through the pointer, the map keeps a copy
EditUpdate ==
    /\ Held.has
    /\ LET task == Held.task
       IN IF checkActive # ErrNil
          THEN /\ ret' = Call("UpdateTask", task.ID, <<>>, 0, checkActive)
               /\ UNCHANGED <<tasks, lastSave, file, callers>>
          ELSE IF Validate(task, now) # ErrNil
          THEN /\ ret' = Call("UpdateTask", task.ID, <<>>, 0, ErrTaskValidation)
               /\ UNCHANGED <<tasks, lastSave, file, callers>>
          ELSE IF ~Exists(tasks, task.ID)
          THEN /\ ret' = Call("UpdateTask", task.ID, <<>>, 0, ErrTaskNotFound)
               /\ UNCHANGED <<tasks, lastSave, file, callers>>
          ELSE LET t2 == [task EXCEPT !.UpdatedAt = now]
                   ts == MapPut(tasks, t2.ID, t2)
               IN \E ioOk \in WriteOutcomes :
                    LET s == Persist(ts, maxID, ioOk)
                    IN /\ tasks' = ts
                       /\ file' = s.file
                       /\ lastSave' = s.lastSave
                       /\ callers' = <<HoldShared(t2)>>
                       /\ ret' = Call("UpdateTask", task.ID, <<>>, 0, s.err)
    /\ UNCHANGED <<readers, diskFails, mu, kind, maxID, isActive, backups,
                   routines, now, lastIssued, closedTasks>>

\* Task.Complete on the task the caller holds
EditComplete ==
    /\ Held.has
    /\ EditLocal("Complete", [Held EXCEPT !.task = Complete(@, now)], ErrNil)

\* Task.UpdateProgress(progress) on the task the caller holds
EditUpdateProgress(progress) ==
    /\ Held.has
    /\ LET r == UpdateProgress(Held.task, progress, now)
       IN EditLocal("UpdateProgress", [Held EXCEPT !.task = r.task], r.err)

\* CLI.updateTask, case "-s": task.Status = st
EditSetStatus(st) ==
    /\ Held.has
    /\ EditLocal("SetStatus", [Held EXCEPT !.task.Status = st], ErrNil)

\* Task.AddSubTask(name) on the task the caller holds: append writes behind
\* the end of the array when its capacity allows (the map's slice ends
\* before), and else into a new array, which the map does not share
EditAddSubTask(name) ==
    /\ Held.has
    /\ Len(Held.task.SubTasks) < MaxSubTasks
    /\ \E grown \in BOOLEAN :
         EditLocal("AddSubTask",
                   [Held EXCEPT !.task = AddSubTask(@, name, now),
                                !.subsShared = @ /\ ~grown],
                   ErrNil)

\* Task.CompleteSubTask(id) on the task the caller holds: the element is
\* written in place
EditCompleteSubTask(id) ==
    /\ Held.has
    /\ LET r == CompleteSubTask(Held.task, id, now)
       IN EditLocal("CompleteSubTask", [Held EXCEPT !.task = r.task], r.err)

\* Task.AddTag(tag) on the task the caller holds: append writes the element
\* after the end of the slice, in place when the array is known to reach
\* that far, and else in place or into a new array as the capacity allows
EditAddTag(tag) ==
    /\ Held.has
    /\ Len(Held.task.Tags) < MaxTags
    /\ LET t2 == AddTag(Held.task, tag, now)
           n == Len(Held.task.Tags)
       IN IF t2.Tags = Held.task.Tags
          THEN EditLocal("AddTag", Held, ErrNil)
          ELSE IF n < Len(Held.tagsArr)
          THEN EditLocal("AddTag",
                         [Held EXCEPT !.task = t2, !.tagsArr[n + 1] = tag],
                         ErrNil)
          ELSE \E grown \in BOOLEAN :
                 EditLocal("AddTag",
                           [Held EXCEPT !.task = t2, !.tagsArr = t2.Tags,
                                        !.tagsShared = @ /\ ~grown],
                           ErrNil)

\* Task.RemoveTag(tag) on the task the caller holds: append(t.Tags[:i],
\* t.Tags[i+1:]...) moves the later elements down within the array and
\* leaves its last element where it was
EditRemoveTag(tag) ==
    /\ Held.has
    /\ LET t2 == RemoveTag(Held.task, tag, now)
           arr == [k \in DOMAIN Held.tagsArr |->
                     IF k <= Len(t2.Tags) THEN t2.Tags[k] ELSE Held.tagsArr[k]]
       IN EditLocal("RemoveTag",
                    [Held EXCEPT !.task = t2,
                                 !.tagsArr = IF t2.Tags = Held.task.Tags
                                             THEN @ ELSE arr],
                    ErrNil)

InitEdit ==
    /\ kind = "file"
    /\ tasks = <<>>
    /\ maxID = 0
    /\ isActive = FALSE
    /\ lastSave = ZeroTime
    /\ file = NoFile
    /\ backups = <<>>
    /\ routines = <<>>
    /\ now = 1
    /\ ret = Call("New", 0, <<>>, 0, ErrNil)
    /\ lastIssued = 0
    /\ closedTasks = NoSnapshot
    /\ mu = 0
    /\ callers = <<NoTaskHeld>>
    /\ readers = {}
    /\ diskFails = FALSE

\* the statuses "update -s" of the CLI accepts
CliStatuses == {NotStarted, InProgress, Completed}

NextEdit ==
    \/ ~isActive /\ FileConnect
    \/ EditNew("a")
    \/ maxID < MaxTimedID /\ EditCreate
    \/ \E id \in 1..(MaxTimedID + 1) : EditGet(id)
    \/ EditUpdate
    \/ EditComplete
    \/ \E progress \in {50, 100, 101} : EditUpdateProgress(progress)
    \/ \E st \in CliStatuses : EditSetStatus(st)
    \/ EditAddSubTask("s")
    \/ \E id \in 1..(MaxSubTasks + 1) : EditCompleteSubTask(id)
    \/ \E id \in 1..(MaxTimedID + 1) : MarkTaskComplete(id)
    \/ \E id \in 1..(MaxTimedID + 1) : MarkTaskIncomplete(id)

SpecEdit == InitEdit /\ [][NextEdit]_vars

-----------------------------------------------------------------------------
(* SpecAlias: the caller of SpecEdit with the calls that write into the
   arrays of the tags and the subtasks *)

NextAlias ==
    \/ ~isActive /\ FileConnect
    \/ EditNew("a")
    \/ maxID < MaxTimedID /\ EditCreate
    \/ \E id \in 1..(MaxTimedID + 1) : EditGet(id)
    \/ EditUpdate
    \/ EditAddSubTask("s")
    \/ \E id \in 1..(MaxSubTasks + 1) : EditCompleteSubTask(id)
    \/ \E tag \in {"x", "y"} : EditAddTag(tag)
    \/ \E tag \in {"x", "y"} : EditRemoveTag(tag)

SpecAlias == InitEdit /\ [][NextAlias]_vars


-----------------------------------------------------------------------------
(* C21: the completed timestamp and the status *)

\* C21: in every reachable state every stored task has the zero completed
\* timestamp exactly when its status is not Completed, after any sequence of
\* CreateTask, UpdateTask, MarkTaskComplete and MarkTaskIncomplete, an
\* UpdateTask that only changed the status included
C21_CompletedAtIffCompleted ==
    \A id \in DOMAIN tasks :
        (tasks[id].CompletedAt = ZeroTime) <=> (tasks[id].Status # Completed)


-----------------------------------------------------------------------------
(* C22: the status Completed and the progress *)

\* C22: after any sequence of Complete, UpdateProgress, CompleteSubTask and
\* MarkTaskComplete every stored task with the status Completed has the
\* progress 100, and a successful MarkTaskComplete(id) leaves the stored task
\* with the status Completed and the progress 100
C22_CompletedMeansFull ==
    /\ [](\A id \in DOMAIN tasks :
            tasks[id].Status = Completed => tasks[id].Progress = 100)
    /\ [][\A id \in 1..(MaxTimedID + 1) :
            (MarkTaskComplete(id) /\ ret'.err = ErrNil) =>
                /\ tasks'[id].Status = Completed
                /\ tasks'[id].Progress = 100]_vars


-----------------------------------------------------------------------------
(* SpecQuery: one caller that fills a store of either kind while the clock
   runs, and reads it with ListTasks, GetTaskSummary and
   GetProductivityStats *)

\* SpecQuery: the last minute of the clock
MaxQueryTime == 4

\* tasks a caller passes to CreateTask: one without a due date, an urgent one
\* due at minute 2, a completed urgent one due at minute 3
QueryTasks ==
    {TaskA,
     [TaskA EXCEPT !.Name = "b", !.Priority = Urgent, !.DueDate = 2],
     [TaskA EXCEPT !.Name = "c", !.Priority = Urgent, !.Status = Completed,
                   !.DueDate = 3, !.CompletedAt = 1, !.Progress = 100]}

\* filters a caller passes: none, an empty one, the overdue flag, a status, a
\* priority, a status and a priority
QueryFilters ==
    {NoFilter, EmptyFilter,
     [EmptyFilter EXCEPT !.IsOverdue = TRUE],
     [EmptyFilter EXCEPT !.Status = NotStarted],
     [EmptyFilter EXCEPT !.Priority = Urgent],
     [EmptyFilter EXCEPT !.Status = NotStarted, !.Priority = Urgent]}

\* the sort option that asks for ascending IDs by name
SortByID == [set |-> TRUE, Field |-> "id", Ascending |-> TRUE]

\* sort options a caller passes: none, the zero SortOption of CLI.listTasks,
\* an empty and an unknown key ascending, the due date in both directions
QuerySorts ==
    {NoSort,
     [set |-> TRUE, Field |-> "", Ascending |-> FALSE],
     [set |-> TRUE, Field |-> "", Ascending |-> TRUE],
     [set |-> TRUE, Field |-> "bogus", Ascending |-> TRUE],
     [set |-> TRUE, Field |-> "due_date", Ascending |-> TRUE],
     [set |-> TRUE, Field |-> "DUE_DATE", Ascending |-> FALSE]}

\* pages a caller passes: none, and every offset from -1 to one past the
\* longest result with every limit from -1 to that length and the largest int
QueryPages ==
    {NoPage} \cup
    {[set |-> TRUE, Offset |-> o, Limit |-> l] :
        o \in -1..(MaxID + 1), l \in (-1..MaxID) \cup {MaxInt}}

\* the arguments of the ListTasks calls of SpecQuery: each filter alone
FilterInputs == {<<f, NoSort, NoPage>> : f \in QueryFilters}

\* the arguments of the ListTasks calls of SpecSort: each sort option alone,
\* each page of the whole store sorted by ID
SortInputs ==
    {<<NoFilter, srt, NoPage>> : srt \in QuerySorts}
      \cup {<<NoFilter, SortByID, pg>> : pg \in QueryPages}

\* the windows a caller passes to GetProductivityStats
QueryWindows == {<<1, MaxQueryTime>>, <<2, 2>>}

InitQuery ==
    /\ kind \in {"memory", "file"}
    /\ tasks = <<>>
    /\ maxID = 0
    /\ isActive = (kind = "memory")
    /\ lastSave = ZeroTime
    /\ file = NoFile
    /\ backups = <<>>
    /\ routines = <<>>
    /\ now = 1
    /\ ret = Call("New", 0, <<>>, 0, ErrNil)
    /\ lastIssued = 0
    /\ closedTasks = NoSnapshot
    /\ mu = 0
    /\ callers = <<>>
    /\ readers = {}
    /\ diskFails = FALSE

NextQuery ==
    \/ ~isActive /\ Connect
    \/ \E task \in QueryTasks : maxID < MaxID /\ CreateTask(task)
    \/ \E in \in FilterInputs : List(in[1], in[2], in[3])
    \/ Summary
    \/ \E w \in QueryWindows : GetProductivityStats(w[1], w[2])
    \/ now < MaxQueryTime /\ Tick(1)

SpecQuery == InitQuery /\ [][NextQuery]_vars

-----------------------------------------------------------------------------
(* SpecSort: one caller that fills a store of either kind and lists it with
   a sort option or a page; the clock stands still *)

NextSort ==
    \/ ~isActive /\ Connect
    \/ \E task \in QueryTasks : maxID < MaxID /\ CreateTask(task)
    \/ DeleteTask(1)
    \/ \E in \in SortInputs : List(in[1], in[2], in[3])

SpecSort == InitQuery /\ [][NextSort]_vars


-----------------------------------------------------------------------------
(* C23: which tasks are overdue *)

\* C23: for every store state and every time, the tasks ListTasks returns
\* under the IsOverdue filter, the tasks GetTaskSummary counts as overdue and
\* the tasks GetProductivityStats counts as overdue within its window are
\* exactly those with a due date that is set and before now and with a status
\* other than Completed
C23_OverdueAgree ==
    LET late == {id \in DOMAIN tasks :
                    /\ tasks[id].DueDate # ZeroTime
                    /\ tasks[id].DueDate < now
                    /\ tasks[id].Status # Completed}
    IN /\ (ret.op = "ListTasks" /\ ret.err = ErrNil /\ ret.filter.IsOverdue) =>
              {ret.list[i].ID : i \in DOMAIN ret.list} = late
       /\ (ret.op = "GetTaskSummary" /\ ret.err = ErrNil) =>
              ret.OverdueTasks = Cardinality(late)
       /\ (ret.op = "GetProductivityStats" /\ ret.err = ErrNil) =>
              ret.overdue_tasks =
                  Cardinality(late \cap InWindow(tasks, ret.startDate,
                                                 ret.endDate))


-----------------------------------------------------------------------------
(* C24: the status and the priority of a filter *)

\* C24: ListTasks with a filter that sets at most a status and a priority
\* returns, each once, exactly the tasks that match the status if one is set
\* and match the priority if one is set: the intersection when both are set,
\* and a sub-filter that is not set excludes no task
C24_FilterIntersects ==
    (/\ ret.op = "ListTasks" /\ ret.err = ErrNil /\ ret.panic = ""
     /\ ~ret.filter.IsOverdue)
    => LET f == ret.filter
           hits == {id \in DOMAIN tasks :
                      /\ (f.set /\ f.Status # NilPtr) =>
                             tasks[id].Status = f.Status
                      /\ (f.set /\ f.Priority # NilPtr) =>
                             tasks[id].Priority = f.Priority}
       IN /\ {ret.list[i].ID : i \in DOMAIN ret.list} = hits
          /\ Len(ret.list) = Cardinality(hits)
          /\ \A i \in DOMAIN ret.list : ret.list[i] = tasks[ret.list[i].ID]

\* ListTasks with a status and a priority returned one of two stored tasks:
\* the other one has the status and not the priority
C24_Witness ==
    /\ ret.op = "ListTasks" /\ ret.err = ErrNil
    /\ ret.filter.set
    /\ ret.filter.Status # NilPtr /\ ret.filter.Priority # NilPtr
    /\ Len(ret.list) = 1
    /\ \E id \in DOMAIN tasks :
          /\ tasks[id].Status = ret.filter.Status
          /\ tasks[id].Priority # ret.filter.Priority


-----------------------------------------------------------------------------
(* C25: sorting by the due date *)

\* C25: ListTasks sorted by due_date returns every task with a due date
\* before every task without one, whatever the direction flag, and the tasks
\* with a due date in chronological order when the direction is ascending
C25_UndatedLast ==
    (/\ ret.op = "ListTasks" /\ ret.err = ErrNil /\ ret.panic = ""
     /\ ret.sort.set /\ ToLower(ret.sort.Field) = "due_date")
    => \A i, j \in DOMAIN ret.list :
          i < j =>
            /\ ret.list[i].DueDate = ZeroTime => ret.list[j].DueDate = ZeroTime
            /\ (/\ ret.sort.Ascending
                /\ ret.list[i].DueDate # ZeroTime
                /\ ret.list[j].DueDate # ZeroTime)
               => ret.list[i].DueDate <= ret.list[j].DueDate


-----------------------------------------------------------------------------
(* C26: the default order *)

\* C26: ListTasks with no sort option, with an empty sort key or with an
\* unknown sort key returns the matching tasks in ascending order of their
\* IDs, for every store state
C26_DefaultOrder ==
    (/\ ret.op = "ListTasks" /\ ret.err = ErrNil /\ ret.panic = ""
     /\ ~ret.page.set
     /\ ~ret.sort.set \/ ret.sort.Field \in {"", "bogus"})
    => \A i, j \in DOMAIN ret.list :
          i < j => ret.list[i].ID < ret.list[j].ID


-----------------------------------------------------------------------------
(* C27: pages *)

\* C27: for the whole store sorted by ID, of length n, and every page
\* (offset, limit): with limit <= 0 the whole result is returned; otherwise
\* the elements at the positions offset .. min(offset + limit, n) - 1 are
\* returned in order; an offset >= n returns the empty sequence; and no page
\* makes ListTasks fail or abort
C27_PageSlices ==
    (/\ ret.op = "ListTasks" /\ ret.err = ErrNil
     /\ ret.page.set /\ ret.panic # PanicUnimplemented)
    => LET n == Cardinality(DOMAIN tasks)
           whole == [i \in 1..n |-> tasks[KeysAscending(DOMAIN tasks)[i]]]
           offset == ret.page.Offset
           limit == ret.page.Limit
           last == IF limit >= n \/ offset + limit > n THEN n
                   ELSE offset + limit
       IN /\ ret.panic = ""
          /\ limit <= 0 => ret.list = whole
          /\ (limit > 0 /\ offset >= n) => ret.list = <<>>
          /\ (limit > 0 /\ offset < n) =>
                /\ Len(ret.list) = last - offset
                /\ \A i \in DOMAIN ret.list :
                      offset + i \in 1..n /\ ret.list[i] = whole[offset + i]


-----------------------------------------------------------------------------
(* C28: the completion rate *)

\* C28: GetProductivityStats(start, end) reports as completion_rate 100 times
\* the completed tasks over all tasks among those created within [start, end],
\* and 0, never a value that is not a number, when no task is in the window
C28_CompletionRate ==
    (ret.op = "GetProductivityStats" /\ ret.err = ErrNil)
    => LET in == {id \in DOMAIN tasks :
                    /\ tasks[id].CreatedAt >= ret.startDate
                    /\ tasks[id].CreatedAt <= ret.endDate}
           done == {id \in in : tasks[id].Status = Completed}
           rate == ret.completion_rate
       IN /\ ~rate.nan
          /\ in = {} => rate.num = 0
          /\ in # {} =>
                rate.num * Cardinality(in) = 100 * Cardinality(done) * rate.den


-----------------------------------------------------------------------------
(* SpecReopen: the caller of SpecClose on a disk whose writes succeed *)

SpecReopen == InitAuto /\ [][NextClose]_vars

\* C30: an ID CreateTask assigned is not assigned again after the store was
\* closed and its file reopened by a new FileStore: every successful
\* CreateTask receives an ID greater than the ID of the last successful
\* CreateTask before it, also when the task with the highest ID was deleted
\* before the close
C30_NoReuseAfterReopen ==
    [][(CreateTask(TaskA) /\ ret'.err = ErrNil) => ret'.out > lastIssued]_vars


-----------------------------------------------------------------------------
(* C29: the task GetTask returns *)

\* C29: GetTask on a present ID returns a task equal to the stored record;
\* GetTask on an absent ID of a connected store fails with ErrTaskNotFound;
\* and when the caller, right after a successful GetTask, calls AddTag,
\* RemoveTag or CompleteSubTask on the task it received, the stored records
\* are the same after the call as before it
C29_GetReturnsCopy ==
    /\ []((ret.op = "GetTask" /\ ret.err = ErrNil)
             => (Exists(tasks, ret.id) /\ Held.task = tasks[ret.id]))
    /\ []((ret.op = "GetTask" /\ isActive /\ ~Exists(tasks, ret.id))
             => ret.err = ErrTaskNotFound)
    /\ [][(/\ ret.op = "GetTask" /\ ret.err = ErrNil
           /\ ret'.op \in {"AddTag", "RemoveTag", "CompleteSubTask"})
             => tasks' = tasks]_vars


-----------------------------------------------------------------------------
(* SpecShut: NumCallers callers run CreateTask, UpdateTask, DeleteTask and
   Close at the same time on one connected FileStore that holds a task under
   SharedID; the writes of the disk succeed and the clock stands still *)

\* a connected FileStore after CreateTask stored its first task and saved it
InitShut ==
    /\ kind = "file"
    /\ now = 1
    /\ tasks = MapPut(<<>>, SharedID,
                      [TaskA EXCEPT !.ID = SharedID, !.CreatedAt = now,
                                    !.UpdatedAt = now])
    /\ maxID = SharedID
    /\ isActive = TRUE
    /\ lastSave = now
    /\ file = save(tasks, maxID, TRUE, now).file
    /\ backups = <<>>
    /\ routines = <<now + AutoSaveTime>>
    /\ ret = Call("CreateTask", 0, <<>>, SharedID, ErrNil)
    /\ lastIssued = SharedID
    /\ closedTasks = NoSnapshot
    /\ mu = 0
    /\ callers = [p \in 1..NumCallers |-> IdleLockCaller]
    /\ readers = {}
    /\ diskFails = FALSE

\* the steps of caller p of SpecShut
ShutStep(p) ==
    \/ MayCall /\ CreateBegin(p)
    \/ CreateLock(p)
    \/ CreateInc(p)
    \/ CreateAssign(p)
    \/ CreateInsert(p)
    \/ CreateSave(p)
    \/ CreateUnlock(p)
    \/ UpdateBegin(p)
    \/ UpdateLock(p)
    \/ UpdateWrite(p)
    \/ UpdateUnlock(p)
    \/ DeleteBegin(p)
    \/ DeleteLock(p)
    \/ DeleteWrite(p)
    \/ DeleteUnlock(p)
    \/ CloseBegin(p)
    \/ CloseLock(p)
    \/ CloseBody(p)
    \/ CloseUnlock(p)

NextShut == \E p \in 1..NumCallers : ShutStep(p)

SpecShut == InitShut /\ [][NextShut]_vars

-----------------------------------------------------------------------------
(* C31: mutations and Close *)

\* C31: once a Close has succeeded, the record map stays the map that Close
\* saw and wrote, whatever calls of CreateTask, UpdateTask and DeleteTask run
\* beside it, and the file holds the records of the map
C31_NoMutationAfterClose ==
    closedTasks.set => (tasks = closedTasks.tasks /\ FileReflects)


-----------------------------------------------------------------------------
(* SpecSpan: one caller connects, closes and connects again a FileStore on a
   disk whose writes succeed, while the clock runs and every ticker fires on
   time; a goroutine of an earlier Connect may still be alive *)

NextSpan ==
    \/ (isActive \/ Len(routines) <= MaxRoutines) /\ FileConnect
    \/ FileClose
    \/ maxID < MaxTimedID /\ CreateTask(TaskA)
    \/ \E i \in 1..(MaxRoutines + 1) : AutoSaveTick(i)
    \/ AutoClock

SpecSpan == InitAuto /\ [][NextSpan]_vars

-----------------------------------------------------------------------------
(* C32: the auto-save goroutine and the span from Connect to Close *)

\* C32: at any time at most one auto-save goroutine of the store is alive,
\* also when a Connect follows a Close before the next tick, and between a
\* successful Close and the next Connect no goroutine writes the file
C32_RoutineBoundToSpan ==
    /\ [](Len(routines) <= 1)
    /\ [][(closedTasks.set /\ ~isActive) => file' = file]_vars


-----------------------------------------------------------------------------
(* C33: calls that return an error *)

\* C33: a call of CreateTask, UpdateTask, DeleteTask, Import or Restore on a
\* FileStore that returns an error, of whatever kind, leaves the record map
\* and the ID counter as they were before the call
C33_ErrorLeavesStore ==
    [][(/\ kind = "file"
        /\ ret'.op \in {"CreateTask", "UpdateTask", "DeleteTask", "Import",
                        "Restore"}
        /\ ret'.err # ErrNil)
          => (tasks' = tasks /\ maxID' = maxID)]_vars


-----------------------------------------------------------------------------
(* C34: CreateTasks *)

\* C34: a CreateTasks on a connected FileStore with a batch of which a task
\* fails validation returns an error and leaves the record map and the ID
\* counter as they were; with a batch of valid tasks that it stores, the
\* tasks receive the IDs that follow the counter, one after the other in the
\* order of the batch
C34_BatchAllOrNothing ==
    [][\A list \in CreateBatches :
         (isActive /\ CreateTasks(list)) =>
            /\ (\E i \in DOMAIN list : Validate(list[i], now) # ErrNil)
                  => /\ ret'.err # ErrNil
                     /\ tasks' = tasks
                     /\ maxID' = maxID
            /\ ret'.err = ErrNil
                  => /\ maxID' = maxID + Len(list)
                     /\ \A i \in DOMAIN list :
                          /\ Exists(tasks', maxID + i)
                          /\ tasks'[maxID + i] =
                               [list[i] EXCEPT !.ID = maxID + i,
                                               !.CreatedAt = now,
                                               !.UpdatedAt = now]]_vars


-----------------------------------------------------------------------------
(* C35: MemoryStore and FileStore side by side: what each of the two kinds of
   store returns for the same record map, the same arguments and the same
   time *)

\* isActive of a store of kind k right after its constructor: NewMemoryStore
\* sets it, NewFileStore leaves it false
newIsActive(k) == k = "memory"

\* matchesFilter of a store of kind k
matchesFilterOf(k, task, filter, t) ==
    IF k = "memory" THEN memMatchesFilter(task, filter, t)
    ELSE fileMatchesFilter(task, filter, t)

\* the outcomes ListTasks of a connected store of kind k can have on the
\* record map ts at time t: the slice returned and the panic, over every
\* order of the range over the map and both readings of sort.Sort
ListResults(k, ts, filter, sort, page, t) ==
    {LET matching == [i \in DOMAIN order |-> ts[order[i]]]
         sorted == sortTasks(k, matching, sort, stub)
     IN IF sorted.panic # "" THEN sorted
        ELSE IF page.set THEN paginateTasks(sorted.tasks, page)
        ELSE sorted :
       order \in Orders({id \in DOMAIN ts : matchesFilterOf(k, ts[id], filter, t)}),
       stub \in (IF sort.set THEN BOOLEAN ELSE {FALSE})}

\* the test SearchTasks of a store of kind k applies to a task with the
\* lowered query: MemoryStore.SearchTasks looks at the name, the description
\* and the category, FileStore.taskMatchesSearch at the tags as well
searchMatches(k, task, query) ==
    \/ Contains(ToLower(task.Name), query)
    \/ Contains(ToLower(task.Description), query)
    \/ Contains(ToLower(task.Category), query)
    \/ /\ k = "file"
       /\ \E i \in DOMAIN task.Tags : Contains(ToLower(task.Tags[i]), query)

\* the IDs of the tasks SearchTasks of a connected store of kind k returns
SearchResults(k, ts, query) ==
    {id \in DOMAIN ts : searchMatches(k, ts[id], ToLower(query))}

\* the queries a caller passes to SearchTasks
SearchQueries == {"", "a", "x"}

\* C35: a MemoryStore and a FileStore are in the same connection state right
\* after construction, and on the same record map at the same time ListTasks
\* returns the same for both, for each filter, sort option and page, and
\* SearchTasks returns the same tasks for both
C35_StoresAgree ==
    /\ ret.op = "New" => \A k \in {"memory", "file"} : isActive = newIsActive(k)
    /\ \A in \in FilterInputs \cup SortInputs :
          ListResults("memory", tasks, in[1], in[2], in[3], now)
             = ListResults("file", tasks, in[1], in[2], in[3], now)
    /\ \A query \in SearchQueries :
          SearchResults("memory", tasks, query)
             = SearchResults("file", tasks, query)


-----------------------------------------------------------------------------
(* SpecTask: one caller that holds a task of its own and calls Complete and
   UpdateProgress on it and assigns its status as CLI.updateTask does, while
   the clock runs; no store takes part *)

\* the clock of SpecTask is not driven past this value
MaxTaskTime == 3

\* the values a caller passes to UpdateProgress: below the range, its ends,
\* inside it, above it
ProgressInputs == {-1, 0, 50, 100, 101}

NextTask ==
    \/ EditNew("a")
    \/ EditComplete
    \/ \E progress \in ProgressInputs : EditUpdateProgress(progress)
    \/ \E st \in CliStatuses : EditSetStatus(st)
    \/ now < MaxTaskTime /\ Tick(1)

SpecTask == InitEdit /\ [][NextTask]_vars

-----------------------------------------------------------------------------
(* C36: Complete *)

\* C36: Complete leaves the task Completed with progress 100 and a completed
\* timestamp that is not zero, and on a task that a Complete has left so, a
\* further Complete changes nothing but the update timestamp: the status, the
\* progress and the completed timestamp stay
C36_CompleteIdempotent ==
    [][EditComplete =>
          /\ Held'.task.Status = Completed
          /\ Held'.task.Progress = 100
          /\ Held'.task.CompletedAt # ZeroTime
          /\ (/\ Held.task.Status = Completed
              /\ Held.task.Progress = 100
              /\ Held.task.CompletedAt # ZeroTime)
                => Held'.task = [Held.task EXCEPT !.UpdatedAt = now]]_vars


-----------------------------------------------------------------------------
(* C37: UpdateProgress *)

\* C37 as stated: UpdateProgress with a progress outside 0..100 fails and
\* leaves the task as it was; with 100 the task becomes Completed; with a
\* progress above 0 and below 100 a NotStarted task becomes InProgress; with
\* any progress in the range a Completed task stays Completed and a task of
\* any other status than NotStarted keeps its status
C37_UpdateProgressAsStated ==
    [][\A p \in ProgressInputs :
         EditUpdateProgress(p) =>
            /\ p \notin 0..100
                  => ret'.err = ErrProgressRange /\ Held'.task = Held.task
            /\ p = 100 => Held'.task.Status = Completed
            /\ (p \in 1..99 /\ Held.task.Status = NotStarted)
                  => Held'.task.Status = InProgress
            /\ (p \in 0..100 /\ Held.task.Status = Completed)
                  => Held'.task.Status = Completed
            /\ (p \in 0..100 /\ Held.task.Status # NotStarted)
                  => Held'.task.Status = Held.task.Status]_vars

\* C37, amended: as stated, but a task of another status than NotStarted
\* keeps its status for any progress in the range below 100
C37_UpdateProgress ==
    [][\A p \in ProgressInputs :
         EditUpdateProgress(p) =>
            /\ p \notin 0..100
                  => ret'.err = ErrProgressRange /\ Held'.task = Held.task
            /\ p = 100 => Held'.task.Status = Completed
            /\ (p \in 1..99 /\ Held.task.Status = NotStarted)
                  => Held'.task.Status = InProgress
            /\ (p \in 0..100 /\ Held.task.Status = Completed)
                  => Held'.task.Status = Completed
            /\ (p \in 0..99 /\ Held.task.Status # NotStarted)
                  => Held'.task.Status = Held.task.Status]_vars

\* an UpdateProgress(100) has completed a task, and the progress of a
\* Completed task was set to 50 without a change of its status
C37_Witness ==
    /\ ret.op = "UpdateProgress" /\ ret.err = ErrNil
    /\ Held.task.Status = Completed
    /\ Held.task.Progress = 50
    /\ Held.task.CompletedAt # ZeroTime


-----------------------------------------------------------------------------
(* SpecSub: one caller that holds a task of its own and calls AddSubTask and
   CompleteSubTask on it, while the clock runs; no store takes part *)

NextSub ==
    \/ EditNew("a")
    \/ EditAddSubTask("s")
    \/ \E id \in 1..(MaxSubTasks + 1) : EditCompleteSubTask(id)
    \/ now < MaxTaskTime /\ Tick(1)

SpecSub == InitEdit /\ [][NextSub]_vars

-----------------------------------------------------------------------------
(* C38: the subtasks and the progress *)

\* C38: on a task that was changed by AddSubTask and CompleteSubTask only and
\* has a subtask and a completed subtask, the progress is the integer part of
\* 100 * completed subtasks / subtasks over its list of subtasks; the IDs of
\* its subtasks differ from one another; a CompleteSubTask with an ID that no
\* subtask has fails and leaves the task as it was
C38_ProgressFromSubTasks ==
    /\ [](LET subs == Held.task.SubTasks
          IN /\ (Len(subs) >= 1 /\ CompletedCount(subs) >= 1)
                  => Held.task.Progress
                       = (100 * CompletedCount(subs)) \div Len(subs)
             /\ \A i, j \in DOMAIN subs : i # j => subs[i].ID # subs[j].ID)
    /\ [][\A id \in 1..(MaxSubTasks + 1) :
            (/\ EditCompleteSubTask(id)
             /\ \A i \in DOMAIN Held.task.SubTasks :
                   Held.task.SubTasks[i].ID # id)
               => ret'.err = ErrSubTaskNotFound /\ Held'.task = Held.task]_vars


-----------------------------------------------------------------------------
(* SpecDue: one caller of a connected FileStore on a disk whose writes
   succeed creates tasks with and without a due date, completes them with
   MarkTaskComplete and passes them from GetTask to UpdateTask as they are,
   while the clock runs past the due dates *)

NextDue ==
    \/ ~isActive /\ FileConnect
    \/ \E task \in QueryTasks : maxID < MaxTimedID /\ CreateTask(task)
    \/ \E id \in 1..MaxTimedID : EditGet(id)
    \/ EditUpdate
    \/ \E id \in 1..MaxTimedID : MarkTaskComplete(id)
    \/ now < MaxQueryTime /\ Tick(1)

SpecDue == InitEdit /\ [][NextDue]_vars

-----------------------------------------------------------------------------
(* C39: completing a task whose due date has passed *)

\* C39: on a connected FileStore, MarkTaskComplete of an ID that is in the
\* store with a status other than Completed succeeds and leaves the stored
\* task Completed, and UpdateTask of a task as GetTask returned it succeeds,
\* whatever the time and the due date of the task
C39_OverdueCanComplete ==
    /\ [][\A id \in 1..MaxTimedID :
            (/\ isActive /\ Exists(tasks, id)
             /\ tasks[id].Status # Completed
             /\ MarkTaskComplete(id))
               => /\ ret'.err = ErrNil
                  /\ tasks'[id].Status = Completed]_vars
    /\ [][(/\ isActive /\ Held.has /\ Exists(tasks, Held.task.ID)
           /\ Held.task = tasks[Held.task.ID]
           /\ EditUpdate)
             => ret'.err = ErrNil]_vars


-----------------------------------------------------------------------------
(* SpecRace: NumCallers callers run MarkTaskComplete, MarkTaskIncomplete,
   UpdateTask and DeleteTask on the ID SharedID at the same time, on a
   connected FileStore on a disk whose writes succeed.  The store holds a
   task under that ID that was created at minute 1, without a due date or
   with one that has passed by now *)

InitRace ==
    /\ kind = "file"
    /\ now = 3
    /\ \E due \in {ZeroTime, 2} :
         tasks = MapPut(<<>>, SharedID,
                        [TaskA EXCEPT !.ID = SharedID, !.DueDate = due,
                                      !.CreatedAt = 1, !.UpdatedAt = 1])
    /\ maxID = SharedID
    /\ isActive = TRUE
    /\ lastSave = 1
    /\ file = save(tasks, maxID, TRUE, 1).file
    /\ backups = <<>>
    /\ routines = <<1 + AutoSaveTime>>
    /\ ret = Call("Tick", 0, <<>>, 0, ErrNil)
    /\ lastIssued = SharedID
    /\ closedTasks = NoSnapshot
    /\ mu = 0
    /\ callers = [p \in 1..NumCallers |-> IdleLockCaller]
    /\ readers = {}
    /\ diskFails = FALSE

\* the calls that are a GetTask followed by an UpdateTask
CompositeOps == {"MarkTaskComplete", "MarkTaskIncomplete"}

\* the steps of caller p of SpecRace
RaceStep(p) ==
    \/ \E op \in CompositeOps : GetBegin(p, op)
    \/ GetRLock(p)
    \/ GetRead(p)
    \/ GetRUnlock(p)
    \/ MarkSet(p)
    \/ UpdateBegin(p)
    \/ UpdateLock(p)
    \/ UpdateWrite(p)
    \/ UpdateUnlock(p)
    \/ DeleteBegin(p)
    \/ DeleteLock(p)
    \/ DeleteWrite(p)
    \/ DeleteUnlock(p)

NextRace == \E p \in 1..NumCallers : RaceStep(p)

SpecRace == InitRace /\ [][NextRace]_vars

-----------------------------------------------------------------------------
(* C40: DeleteTask beside MarkTaskComplete and MarkTaskIncomplete *)

\* C40: in every interleaving of MarkTaskComplete and MarkTaskIncomplete with
\* DeleteTask on one ID, the ID stays absent from the record map once a
\* DeleteTask has taken it out, and a MarkTaskComplete or MarkTaskIncomplete
\* that returns while the ID is absent returns ErrTaskNotFound
C40_NoResurrection ==
    /\ [][~Exists(tasks, SharedID) => ~Exists(tasks', SharedID)]_vars
    /\ [][\A p \in 1..NumCallers :
            (/\ callers[p].op \in CompositeOps
             /\ callers[p].pc # "idle" /\ callers'[p].pc = "idle"
             /\ ~Exists(tasks, SharedID))
               => callers'[p].err = ErrTaskNotFound]_vars

=============================================================================
